---- MODULE Spec2Model ----
(***************************************************************************)
(* Incident Commander: the Lambda handler, the LangGraph investigation     *)
(* workflow DETECT -> PLAN -> INVESTIGATE -> AGGREGATE -> DECIDE -> REPORT *)
(* and the three investigator agents, as a state machine (Spec); the       *)
(* report rendered again from the final state (SpecRender); and the triage *)
(* of a CloudWatch Logs subscription event (SpecTriage).                   *)
(*                                                                         *)
(* Python values are encoded uniformly so that TLC can compare them:       *)
(*   - an Optional value is a sequence, None = <<>> and a value v = <<v>>;  *)
(*   - a dict with a fixed set of possible keys is a record whose fields   *)
(*     are Optional (a missing key is <<>>) or, for JSON text fields, one  *)
(*     of the strings KeyMissing / JsonNull / an ordinary text;            *)
(*   - floats in [0,1] are whole percents (0.85 is 85, 1.5 is 150); the    *)
(*     error rate per minute is in hundredths (2.0 is 200).                *)
(***************************************************************************)
EXTENDS Integers, Sequences, FiniteSets, TLC

VARIABLES
    node,       \* where control is: a graph node, "END" (graph.invoke returned),
                \* or "returned" (the handler returned)
    state,      \* the IncidentState threaded through the graph
    calling,    \* the agent whose investigate call investigate_node is waiting
                \* for, "none" when no call is in progress
    results,    \* investigate_node's locals logs_result, metrics_result, deploy_result
    verdict,    \* decide_node's local: what chain.invoke did (None before DECIDE)
    response,   \* the handler's return value (None until it returns)
    renderings, \* the report texts rendered from the final state, with the
                \* clock reading of each rendering
    event,      \* triage: the subscription event the handler was invoked with
    batch,      \* triage: the error events of the subscription event
    triage,     \* triage: categorize_errors' analysis of the batch and
                \* should_trigger_investigation's answer
    incident,   \* deploy toolkit: the incident time the correlator is given
    trail,      \* deploy toolkit: the configuration updates CloudTrail holds
                \* for the function, in the order lookup_events returns them
    correlation,\* deploy toolkit: what correlate_deploy_with_incident did
                \* (None before the call)
    averages,   \* metrics toolkit: the Average of each datapoint CloudWatch
                \* holds, oldest first
    metrics,    \* metrics toolkit: what query_metrics returned (None before
                \* the call)
    anomalies   \* metrics toolkit: what detect_anomalies did (None before
                \* the call)

\* the toolkits' inputs and results
toolkit_vars == <<incident, trail, correlation, averages, metrics, anomalies>>

vars == <<node, state, calling, results, verdict, response, renderings, event,
          batch, triage, toolkit_vars>>

\* what the investigation workflow leaves alone
other_vars == <<renderings, event, batch, triage, toolkit_vars>>

-----------------------------------------------------------------------------
(* Python values *)

None == <<>>
Some(v) == <<v>>

\* str(x) of an Optional text, as an f-string renders it
PyStr(opt) == IF opt = None THEN "None" ELSE opt[1]

\* dict.get(key, default) on an Optional-encoded key: the default is used
\* only when the key is missing
DictGet(opt, default) == IF opt = None THEN default ELSE opt[1]

\* a JSON object's text field: missing key, null, or a text
KeyMissing == "<missing>"
JsonNull == "<null>"

LogsAgentName == "Logs Agent"
MetricsAgentName == "Metrics Agent"
DeployAgentName == "Deploy Agent"
AgentNames == <<LogsAgentName, MetricsAgentName, DeployAgentName>>

-----------------------------------------------------------------------------
(* Inputs: the alerts the handler can be invoked with *)

\* graph.py's test alert: every field present
FullAlert ==
    [service |-> Some("demo-checkout-service"), metric |-> Some("error_rate"),
     current_value |-> Some("0.5"), threshold |-> Some("0.05"),
     severity |-> Some("critical"), timestamp |-> Some("2026-02-06T14:30:00"),
     incident_id |-> None, source |-> None, trigger_time |-> None]

\* an alert that carries only service, metric, current value and threshold
BareAlert ==
    [service |-> Some("checkout"), metric |-> Some("error_rate"),
     current_value |-> Some("0.5"), threshold |-> Some("0.05"),
     severity |-> None, timestamp |-> None,
     incident_id |-> None, source |-> None, trigger_time |-> None]

\* an alert without service and metric
AnonymousAlert ==
    [service |-> None, metric |-> None,
     current_value |-> Some("0.5"), threshold |-> Some("0.05"),
     severity |-> Some("critical"), timestamp |-> Some("2026-02-06T14:30:00"),
     incident_id |-> None, source |-> None, trigger_time |-> None]

\* subscription_handler.create_incident_context: the incident context built
\* from a subscription event for which triage decided to trigger.  Of its
\* keys the model keeps incident_id, source and trigger_time; it has none of
\* the keys service, metric, current_value, threshold, severity, timestamp.
create_incident_context(log_group_short, now) ==
    [service |-> None, metric |-> None,
     current_value |-> None, threshold |-> None,
     severity |-> None, timestamp |-> None,
     incident_id |-> Some("INC-" \o log_group_short \o "-" \o now),
     source |-> Some("cloudwatch_subscription"),
     trigger_time |-> Some(now)]

SubscriptionAlert == create_incident_context("demo-checkout-service", "20260206143000")

Alerts == {FullAlert, BareAlert, AnonymousAlert, SubscriptionAlert}

-----------------------------------------------------------------------------
(* Messages *)

\* metadata is a dict; of its content the model keeps the findings of an
\* agent's message and the total_findings count of AGGREGATE's message
NoMetadata == [findings |-> None, total_findings |-> None]

AgentMessage(agent, message, metadata) ==
    [agent |-> agent, message |-> message, metadata |-> metadata]

-----------------------------------------------------------------------------
(* lambda_handler.handler: the initial IncidentState *)

\* incident_id is the incident context's on the subscription path, else
\* "INC-" and the first eight characters of the request id
initial_state(alert) ==
    [incident_id |-> DictGet(alert.incident_id, "INC-LOCAL-TE"),
     status |-> "detecting",
     alert |-> alert,
     investigation_plan |-> None,
     messages |-> <<>>,
     logs_findings |-> None,
     metrics_findings |-> None,
     deploy_findings |-> None,
     root_cause |-> None,
     confidence_score |-> None,
     recommended_action |-> None,
     failed_agents |-> <<>>,
     retry_count |-> 0,
     partial_results |-> FALSE,
     rca_report |-> None,
     chain_of_thought |-> None]

NoResults == [a \in {LogsAgentName, MetricsAgentName, DeployAgentName} |-> None]

\* the handler's except branch: graph.invoke raised
handler_except(s) ==
    [statusCode |-> 500, status |-> "failed", incident_id |-> s.incident_id,
     root_cause |-> None, confidence_score |-> None, recommended_action |-> None,
     rca_report |-> None, chain_of_thought |-> None,
     partial_results |-> FALSE, failed_agents |-> <<>>]

\* the handler's normal return, built from the graph's final state
handler_return(s) ==
    [statusCode |-> 200, status |-> s.status, incident_id |-> s.incident_id,
     root_cause |-> s.root_cause, confidence_score |-> s.confidence_score,
     recommended_action |-> s.recommended_action,
     rca_report |-> s.rca_report, chain_of_thought |-> s.chain_of_thought,
     partial_results |-> s.partial_results, failed_agents |-> s.failed_agents]

\* a node raised: nothing of its delta is applied, graph.invoke raises and the
\* handler returns its 500 response
Raise ==
    /\ node' = "returned"
    /\ response' = Some(handler_except(state))
    /\ UNCHANGED state

-----------------------------------------------------------------------------
(* nodes/investigation_nodes.py *)

detect_node(s) ==
    [status |-> "planning",
     messages |-> Append(s.messages,
        AgentMessage("System",
                     "Incident detected: " \o PyStr(s.alert.metric)
                        \o " spike on " \o PyStr(s.alert.service),
                     NoMetadata))]

AgentsToInvoke == AgentNames

\* plan_node with the status of the phase after next
plan_node_SkipsAhead(s) ==
    [status |-> "aggregating",
     investigation_plan |-> Some([agents |-> AgentsToInvoke,
                                  parallel_execution |-> TRUE]),
     messages |-> Append(s.messages,
        AgentMessage("Commander", "Investigation plan created: 3 agents will investigate",
                     NoMetadata))]

plan_node(s) ==
    [status |-> "investigating",
     investigation_plan |-> Some([agents |-> AgentsToInvoke,
                                  parallel_execution |-> TRUE]),
     messages |-> Append(s.messages,
        AgentMessage("Commander", "Investigation plan created: 3 agents will investigate",
                     NoMetadata))]

\* LangGraph applies a node's delta: the returned keys overwrite the state's
Merge(s, delta) ==
    [k \in DOMAIN s |-> IF k \in DOMAIN delta THEN delta[k] ELSE s[k]]

-----------------------------------------------------------------------------
(* The synthesis collaborator as the agents see it: chain.invoke raises, or  *)
(* returns content that json.loads rejects, or content that parses to an     *)
(* object.  confidence is None when the object has no usable number there    *)
(* (key missing, null, or a value that the ":.2f" format rejects).           *)

ExcTexts == {"", "CloudWatch API error"}
Reasonings == {KeyMissing, JsonNull, "Test analysis"}

AgentLlmResponses ==
    {[kind |-> "raise", exc |-> t, confidence |-> None, reasoning |-> KeyMissing] :
        t \in ExcTexts}
    \cup {[kind |-> "text", exc |-> "", confidence |-> None, reasoning |-> KeyMissing]}
    \cup {[kind |-> "json", exc |-> "", confidence |-> c, reasoning |-> r] :
        c \in {None, Some(85)}, r \in Reasonings}

RetrievalOutcomes == {"returns", "raises"}

JSONDecodeErrorText == "Expecting value: line 1 column 1 (char 0)"
FormatErrorText == "unsupported format string passed to NoneType.__format__"

\* the text of the clock reading an agent stamps its result with
IsoNow == "datetime.now().isoformat()"

\* What an agent's investigate call did.  raised: the call raised instead of
\* returning; agent, error, findings, timestamp: the keys of the returned dict
\* (error and timestamp are None when the key is absent).  retrieval records
\* how the agent's retrieval calls ended; it is not part of the returned dict.
AgentRaised(name, retrieval) ==
    [raised |-> TRUE, agent |-> name, error |-> None, findings |-> None,
     timestamp |-> None, retrieval |-> retrieval]

AgentError(name, retrieval, text) ==
    [raised |-> FALSE, agent |-> name, error |-> Some(text), findings |-> None,
     timestamp |-> Some(IsoNow), retrieval |-> retrieval]

AgentFindings(name, retrieval, findings) ==
    [raised |-> FALSE, agent |-> name, error |-> None, findings |-> Some(findings),
     timestamp |-> Some(IsoNow), retrieval |-> retrieval]

\* the except clause keeping the findings that json.loads had produced
Synthesis_KeepsFindings(name, retrieval, llm) ==
    IF llm.kind = "raise" THEN AgentError(name, retrieval, llm.exc)
    ELSE IF llm.kind = "text" THEN AgentError(name, retrieval, JSONDecodeErrorText)
    ELSE IF llm.confidence = None
    THEN [AgentError(name, retrieval, FormatErrorText) EXCEPT
             !.findings = Some([confidence |-> 0, reasoning |-> llm.reasoning])]
    ELSE AgentFindings(name, retrieval,
                       [confidence |-> llm.confidence[1], reasoning |-> llm.reasoning])

\* the try/except around chain.invoke, json.loads and the prints, the same in
\* the three agents
Synthesis(name, retrieval, llm) ==
    IF llm.kind = "raise" THEN AgentError(name, retrieval, llm.exc)
    ELSE IF llm.kind = "text" THEN AgentError(name, retrieval, JSONDecodeErrorText)
    ELSE IF llm.confidence = None THEN AgentError(name, retrieval, FormatErrorText)
    ELSE AgentFindings(name, retrieval,
                       [confidence |-> llm.confidence[1], reasoning |-> llm.reasoning])

\* search_logs raises UnboundLocalError when the first poll of the query
\* results raises; it is called before the agent's try block
LogsAgent_investigate(s, retrieval, llm) ==
    IF retrieval = "raises" THEN AgentRaised(LogsAgentName, retrieval)
    ELSE Synthesis(LogsAgentName, retrieval, llm)

\* query_metrics and detect_anomalies catch every exception themselves
MetricsAgent_investigate(s, llm) ==
    Synthesis(MetricsAgentName, "returns", llm)

\* alert.get("timestamp") is None for an alert without timestamp, and
\* None.replace raises; correlate_deploy_with_incident raises when it compares
\* an offset-aware deployment time with an offset-naive incident time.  Both
\* happen before the agent's try block
DeployAgent_investigate(s, retrieval, llm) ==
    IF s.alert.timestamp = None THEN AgentRaised(DeployAgentName, "returns")
    ELSE IF retrieval = "raises" THEN AgentRaised(DeployAgentName, retrieval)
    ELSE Synthesis(DeployAgentName, retrieval, llm)

-----------------------------------------------------------------------------
(* investigate_node, after the three calls have returned *)

\* result.get("error") as a condition: the key is present and not ""
Truthy(error) == error # None /\ error # Some("")

\* result["findings"].get("reasoning", "N/A")[:100] raises when findings is
\* None (AttributeError) or when reasoning is null (TypeError)
MessageRaises(r) ==
    ~Truthy(r.error) /\ (r.findings = None \/ r.findings[1].reasoning = JsonNull)

investigate_node_raises(lr, mr, dr) ==
    MessageRaises(lr) \/ MessageRaises(mr) \/ MessageRaises(dr)

ResultMessage(r) ==
    IF Truthy(r.error) THEN <<>>
    ELSE <<AgentMessage(r.agent,
              "Investigation complete: "
                 \o (IF r.findings[1].reasoning = KeyMissing THEN "N/A"
                     ELSE r.findings[1].reasoning) \o "...",
              [findings |-> r.findings, total_findings |-> None])>>

\* investigate_node with partial_results set only from the second failure on
investigate_node_PartialOnMany(s, lr, mr, dr) ==
    LET failed_agents ==
            (IF Truthy(lr.error) THEN <<LogsAgentName>> ELSE <<>>)
            \o (IF Truthy(mr.error) THEN <<MetricsAgentName>> ELSE <<>>)
            \o (IF Truthy(dr.error) THEN <<DeployAgentName>> ELSE <<>>)
    IN  [status |-> "aggregating",
         logs_findings |-> lr.findings,
         metrics_findings |-> mr.findings,
         deploy_findings |-> dr.findings,
         failed_agents |-> failed_agents,
         partial_results |-> Len(failed_agents) > 1,
         messages |-> s.messages \o ResultMessage(lr) \o ResultMessage(mr)
                        \o ResultMessage(dr)]

\* investigate_node with the Deploy slot filled from the Metrics result
investigate_node_WrongSlot(s, lr, mr, dr) ==
    LET failed_agents ==
            (IF Truthy(lr.error) THEN <<LogsAgentName>> ELSE <<>>)
            \o (IF Truthy(mr.error) THEN <<MetricsAgentName>> ELSE <<>>)
            \o (IF Truthy(dr.error) THEN <<DeployAgentName>> ELSE <<>>)
    IN  [status |-> "aggregating",
         logs_findings |-> lr.findings,
         metrics_findings |-> mr.findings,
         deploy_findings |-> mr.findings,
         failed_agents |-> failed_agents,
         partial_results |-> Len(failed_agents) > 0,
         messages |-> s.messages \o ResultMessage(lr) \o ResultMessage(mr)
                        \o ResultMessage(dr)]

\* investigate_node without the third failure check: a failed Deploy role
\* is not entered in failed_agents
investigate_node_ForgetsDeploy(s, lr, mr, dr) ==
    LET failed_agents ==
            (IF Truthy(lr.error) THEN <<LogsAgentName>> ELSE <<>>)
            \o (IF Truthy(mr.error) THEN <<MetricsAgentName>> ELSE <<>>)
    IN  [status |-> "aggregating",
         logs_findings |-> lr.findings,
         metrics_findings |-> mr.findings,
         deploy_findings |-> dr.findings,
         failed_agents |-> failed_agents,
         partial_results |-> Len(failed_agents) > 0,
         messages |-> s.messages \o ResultMessage(lr) \o ResultMessage(mr)
                        \o ResultMessage(dr)]

\* investigate_node counting a retry for every failed role
investigate_node_CountsRetries(s, lr, mr, dr) ==
    LET failed_agents ==
            (IF Truthy(lr.error) THEN <<LogsAgentName>> ELSE <<>>)
            \o (IF Truthy(mr.error) THEN <<MetricsAgentName>> ELSE <<>>)
            \o (IF Truthy(dr.error) THEN <<DeployAgentName>> ELSE <<>>)
    IN  [status |-> "aggregating",
         logs_findings |-> lr.findings,
         metrics_findings |-> mr.findings,
         deploy_findings |-> dr.findings,
         failed_agents |-> failed_agents,
         retry_count |-> s.retry_count + Len(failed_agents),
         partial_results |-> Len(failed_agents) > 0,
         messages |-> s.messages \o ResultMessage(lr) \o ResultMessage(mr)
                        \o ResultMessage(dr)]

investigate_node(s, lr, mr, dr) ==
    LET failed_agents ==
            (IF Truthy(lr.error) THEN <<LogsAgentName>> ELSE <<>>)
            \o (IF Truthy(mr.error) THEN <<MetricsAgentName>> ELSE <<>>)
            \o (IF Truthy(dr.error) THEN <<DeployAgentName>> ELSE <<>>)
    IN  [status |-> "aggregating",
         logs_findings |-> lr.findings,
         metrics_findings |-> mr.findings,
         deploy_findings |-> dr.findings,
         failed_agents |-> failed_agents,
         partial_results |-> Len(failed_agents) > 0,
         messages |-> s.messages \o ResultMessage(lr) \o ResultMessage(mr)
                        \o ResultMessage(dr)]

-----------------------------------------------------------------------------
(* aggregate_node *)

\* bool(findings): a findings dict always has keys, None is false
Bool(findings) == IF findings = None THEN 0 ELSE 1

\* aggregate_node counting the roles of the plan instead of the findings
aggregate_node_CountsRoles(s) ==
    [status |-> "deciding",
     messages |-> Append(s.messages,
        AgentMessage("Commander", "Agent findings aggregated",
                     [findings |-> None,
                      total_findings |-> Some(Len(s.investigation_plan[1].agents))]))]

\* aggregate_node returning a log that holds only its own message
aggregate_node_ReplacesLog(s) ==
    [status |-> "deciding",
     messages |-> <<AgentMessage("Commander", "Agent findings aggregated",
                     [findings |-> None,
                      total_findings |-> Some(Bool(s.logs_findings)
                            + Bool(s.metrics_findings) + Bool(s.deploy_findings))])>>]

aggregate_node(s) ==
    [status |-> "deciding",
     messages |-> Append(s.messages,
        AgentMessage("Commander", "Agent findings aggregated",
                     [findings |-> None,
                      total_findings |-> Some(Bool(s.logs_findings)
                            + Bool(s.metrics_findings) + Bool(s.deploy_findings))]))]

-----------------------------------------------------------------------------
(* decide_node *)

\* The synthesis collaborator as DECIDE sees it.  confidence_score is None
\* when the object has no usable number there (key missing, null, or a value
\* that the ":.2%" format rejects).
VerdictTexts == {KeyMissing, JsonNull}
RootCauses == VerdictTexts \cup {"Database connection pool exhaustion"}
Actions == VerdictTexts \cup {"Rollback deployment"}
Scores == {None, Some(95), Some(150)}

NoVerdictDoc == [root_cause |-> KeyMissing, confidence_score |-> None,
                 recommended_action |-> KeyMissing]

VerdictResponses ==
    {[kind |-> "raise", exc |-> t, doc |-> NoVerdictDoc] : t \in ExcTexts}
    \cup {[kind |-> "text", exc |-> "", doc |-> NoVerdictDoc]}
    \cup {[kind |-> "json", exc |-> "",
           doc |-> [root_cause |-> rc, confidence_score |-> c,
                    recommended_action |-> ra]] :
            rc \in RootCauses, c \in Scores, ra \in Actions}

\* a JSON text field as the Python value json.loads gives
FromJson(text) == IF text = JsonNull THEN None ELSE Some(text)

\* the try block runs to its return: chain.invoke returned, json.loads parsed
\* an object, and the three keys could be read and printed
decide_try_succeeds(llm) ==
    /\ llm.kind = "json"
    /\ llm.doc.root_cause # KeyMissing
    /\ llm.doc.confidence_score # None
    /\ llm.doc.recommended_action # KeyMissing

FallbackRootCause == "Unable to determine root cause"
FallbackAction == "Manual escalation required"

\* the fallback without its confidence_score
decide_fallback_NoConfidence ==
    [status |-> "failed",
     root_cause |-> Some(FallbackRootCause),
     recommended_action |-> Some(FallbackAction)]

decide_fallback ==
    [status |-> "failed",
     root_cause |-> Some(FallbackRootCause),
     confidence_score |-> Some(0),
     recommended_action |-> Some(FallbackAction)]

decide_node(s, llm) ==
    IF decide_try_succeeds(llm)
    THEN [status |-> "acting",
          root_cause |-> FromJson(llm.doc.root_cause),
          confidence_score |-> llm.doc.confidence_score,
          recommended_action |-> FromJson(llm.doc.recommended_action),
          messages |-> Append(s.messages,
             AgentMessage("Commander",
                          "Root cause determined: "
                             \o PyStr(FromJson(llm.doc.root_cause)),
                          NoMetadata))]
    ELSE decide_fallback

-----------------------------------------------------------------------------
(* report_node *)

\* state.get(key, default): every key of IncidentState is set by the handler,
\* so the default is used only for a key the state does not have
StateGet(s, key, default) == IF key \in DOMAIN s THEN s[key] ELSE default

NoFindingsText == "*No findings available*"

_format_findings(findings) ==
    IF findings = None THEN NoFindingsText
    ELSE "- **Confidence:** " \o ToString(findings[1].confidence)
         \o (IF findings[1].reasoning \in {KeyMissing, JsonNull} THEN ""
             ELSE "\n**Analysis:** " \o findings[1].reasoning)

TimelineLimit == 10

_format_timeline(messages) ==
    IF messages = <<>> THEN <<"*No timeline data*">>
    ELSE LET n == Len(messages)
             first == IF n > TimelineLimit THEN n - TimelineLimit + 1 ELSE 1
         IN  [i \in 1..(n - first + 1) |->
                "[" \o messages[first + i - 1].agent \o "]: "
                    \o messages[first + i - 1].message \o "..."]

\* the ":.1%" format of the confidence raises on None
report_node_raises(s) == StateGet(s, "confidence_score", Some(0)) = None

\* the clock readings datetime.now() can give
MaxTime == 2
Times == 0..MaxTime

\* the report with an incident id derived from the clock at rendering time
Report_IdFromClock(s, now) ==
    [incident_id |-> "INC-" \o ToString(now),
     service |-> PyStr(s.alert.service),
     status |-> s.status,
     root_cause |-> PyStr(StateGet(s, "root_cause", Some("Unknown"))),
     confidence |-> IF report_node_raises(s) THEN 0
                    ELSE StateGet(s, "confidence_score", Some(0))[1],
     recommended_action |-> PyStr(StateGet(s, "recommended_action", Some("N/A"))),
     metric |-> PyStr(s.alert.metric),
     current_value |-> PyStr(s.alert.current_value),
     threshold |-> PyStr(s.alert.threshold),
     severity |-> DictGet(s.alert.severity, "unknown"),
     logs_agent |-> _format_findings(StateGet(s, "logs_findings", None)),
     metrics_agent |-> _format_findings(StateGet(s, "metrics_findings", None)),
     deploy_agent |-> _format_findings(StateGet(s, "deploy_findings", None)),
     timeline |-> _format_timeline(StateGet(s, "messages", <<>>)),
     recommendations |->
        PyStr(StateGet(s, "recommended_action", Some("Manual investigation required"))),
     generated_at |-> now]

\* the report text, as the record of its interpolated parts; the footer line
\* "Report generated at" carries datetime.now() of the rendering
Report(s, now) ==
    [incident_id |-> s.incident_id,
     service |-> PyStr(s.alert.service),
     status |-> s.status,
     root_cause |-> PyStr(StateGet(s, "root_cause", Some("Unknown"))),
     confidence |-> IF report_node_raises(s) THEN 0
                    ELSE StateGet(s, "confidence_score", Some(0))[1],
     recommended_action |-> PyStr(StateGet(s, "recommended_action", Some("N/A"))),
     metric |-> PyStr(s.alert.metric),
     current_value |-> PyStr(s.alert.current_value),
     threshold |-> PyStr(s.alert.threshold),
     severity |-> DictGet(s.alert.severity, "unknown"),
     logs_agent |-> _format_findings(StateGet(s, "logs_findings", None)),
     metrics_agent |-> _format_findings(StateGet(s, "metrics_findings", None)),
     deploy_agent |-> _format_findings(StateGet(s, "deploy_findings", None)),
     timeline |-> _format_timeline(StateGet(s, "messages", <<>>)),
     recommendations |->
        PyStr(StateGet(s, "recommended_action", Some("Manual investigation required"))),
     generated_at |-> now]

Phase(name) == [phase |-> name, status |-> "complete", root_cause |-> <<>>]

\* the trace without its AGGREGATE entry
chain_of_thought_NoAggregate(s) ==
    <<Phase("DETECT"), Phase("PLAN"), Phase("INVESTIGATE"),
      [phase |-> "DECIDE", status |-> "complete",
       root_cause |-> <<StateGet(s, "root_cause", None)>>],
      Phase("REPORT")>>

\* the DECIDE entry alone carries a root_cause key, here a one-element sequence
chain_of_thought(s) ==
    <<Phase("DETECT"), Phase("PLAN"), Phase("INVESTIGATE"), Phase("AGGREGATE"),
      [phase |-> "DECIDE", status |-> "complete",
       root_cause |-> <<StateGet(s, "root_cause", None)>>],
      Phase("REPORT")>>

\* report_node leaving the status as DECIDE set it
report_node_KeepsStatus(s, now) ==
    [status |-> s.status,
     rca_report |-> Some(Report(s, now)),
     chain_of_thought |-> Some(chain_of_thought(s))]

\* report_node announcing the report in the message log
report_node_AppendsMessage(s, now) ==
    [status |-> "completed",
     rca_report |-> Some(Report(s, now)),
     chain_of_thought |-> Some(chain_of_thought(s)),
     messages |-> Append(s.messages,
        AgentMessage("Commander", "RCA report generated", NoMetadata))]

report_node(s, now) ==
    [status |-> "completed",
     rca_report |-> Some(Report(s, now)),
     chain_of_thought |-> Some(chain_of_thought(s))]

-----------------------------------------------------------------------------
(* subscription_handler.py: triage of a subscription event *)

\* The texts the error events of the model carry in their error_type and
\* message fields, each with the lower-cased keywords of the categorisation
\* rules that occur in it as a substring: Keywords[t] is what
\* `word in t.lower()` finds.
Keywords ==
    [t \in {"DatabaseTimeoutError", "PaymentAPIError", "MemoryError",
            "ValidationError", "ExternalServiceError", "APITimeoutError",
            "UnknownError", "query timed out", "payment declined",
            "out of memory", "invalid quantity", "inventory lookup failed",
            "request failed", ""} |->
        CASE t = "DatabaseTimeoutError" -> {"database", "timeout"}
          [] t = "PaymentAPIError" -> {"payment", "api"}
          [] t = "MemoryError" -> {"memory"}
          [] t = "ValidationError" -> {"validation"}
          [] t = "ExternalServiceError" -> {"external"}
          [] t = "APITimeoutError" -> {"api", "timeout"}
          [] t = "payment declined" -> {"payment"}
          [] t = "out of memory" -> {"memory"}
          [] t = "inventory lookup failed" -> {"inventory"}
          [] OTHER -> {}]

Contains(word, text) == word \in Keywords[text]

CategoryNames ==
    <<"database", "api", "validation", "memory", "external_service", "unknown">>

\* error.get("error_type", "UnknownError") and error.get("message", ""): the
\* default stands in for a missing key only
ErrorType(error) ==
    IF error.error_type = KeyMissing THEN "UnknownError" ELSE error.error_type

Message(error) ==
    IF error.message = KeyMissing THEN "" ELSE error.message

\* .lower() on None raises AttributeError: an event whose error_type or
\* message is null stops categorize_errors
categorize_raises(error_events) ==
    \E i \in 1..Len(error_events) :
        \/ error_events[i].error_type = JsonNull
        \/ error_events[i].message = JsonNull

\* the chain with the api rule tested before the database rule
CategoryOf_ApiFirst(error) ==
    LET error_type == ErrorType(error)
        message == Message(error)
    IN  IF Contains("api", error_type) \/ Contains("payment", message)
        THEN "api"
        ELSE IF Contains("timeout", error_type) \/ Contains("database", message)
        THEN "database"
        ELSE IF Contains("validation", error_type) THEN "validation"
        ELSE IF Contains("memory", error_type) THEN "memory"
        ELSE IF \/ Contains("external", error_type)
                \/ Contains("inventory", message)
                \/ Contains("shipping", message)
        THEN "external_service"
        ELSE "unknown"

\* the if/elif chain of categorize_errors: the first rule that matches
CategoryOf(error) ==
    LET error_type == ErrorType(error)
        message == Message(error)
    IN  IF Contains("timeout", error_type) \/ Contains("database", message)
        THEN "database"
        ELSE IF Contains("api", error_type) \/ Contains("payment", message)
        THEN "api"
        ELSE IF Contains("validation", error_type) THEN "validation"
        ELSE IF Contains("memory", error_type) THEN "memory"
        ELSE IF \/ Contains("external", error_type)
                \/ Contains("inventory", message)
                \/ Contains("shipping", message)
        THEN "external_service"
        ELSE "unknown"

\* the category of each event, in the order of the batch
RECURSIVE Categories(_)
Categories(error_events) ==
    IF error_events = <<>> THEN <<>>
    ELSE <<CategoryOf(Head(error_events))>> \o Categories(Tail(error_events))

\* len(v) of one category's list
CountOf(cats, c) == Cardinality({i \in 1..Len(cats) : cats[i] = c})

\* the api rule tested with "if" instead of "elif": an event that matched
\* the database rule is counted under api as well
category_counts_ApiNotElse(error_events) ==
    LET cats == Categories(error_events)
        api_rule == {i \in 1..Len(error_events) :
                        \/ Contains("api", error_events[i].error_type)
                        \/ Contains("payment", error_events[i].message)}
    IN  [database |-> CountOf(cats, "database"),
         api |-> Cardinality(api_rule),
         validation |-> CountOf(cats, "validation"),
         memory |-> CountOf(cats, "memory"),
         external_service |-> CountOf(cats, "external_service"),
         unknown |-> CountOf(cats, "unknown")]

\* {k: len(v) for k, v in categories.items()}
category_counts(error_events) ==
    LET cats == Categories(error_events)
    IN  [database |-> CountOf(cats, "database"),
         api |-> CountOf(cats, "api"),
         validation |-> CountOf(cats, "validation"),
         memory |-> CountOf(cats, "memory"),
         external_service |-> CountOf(cats, "external_service"),
         unknown |-> CountOf(cats, "unknown")]

\* the pass keeping the last of the items with the largest count
RECURSIVE MaxFirst_LastWins(_, _, _)
MaxFirst_LastWins(counts, k, best) ==
    IF k > Len(CategoryNames) THEN best
    ELSE IF counts[CategoryNames[k]] >= counts[CategoryNames[best]]
         THEN MaxFirst_LastWins(counts, k + 1, k)
         ELSE MaxFirst_LastWins(counts, k + 1, best)

\* max(items, key=count) as Python computes it: one pass in the order of the
\* dict, keeping the first item whose count is larger than the best so far
RECURSIVE MaxFirst(_, _, _)
MaxFirst(counts, k, best) ==
    IF k > Len(CategoryNames) THEN best
    ELSE IF counts[CategoryNames[k]] > counts[CategoryNames[best]]
         THEN MaxFirst(counts, k + 1, k)
         ELSE MaxFirst(counts, k + 1, best)

dominant_category(counts, error_events) ==
    IF error_events = <<>> THEN "none"
    ELSE CategoryNames[MaxFirst(counts, 2, 1)]

MsPerMinute == 60000

time_span_ms(error_events) ==
    LET timestamps == {error_events[i]._log_timestamp : i \in 1..Len(error_events)}
        max == CHOOSE t \in timestamps : \A u \in timestamps : u <= t
        min == CHOOSE t \in timestamps : \A u \in timestamps : t <= u
    IN  IF Len(error_events) > 1 THEN max - min ELSE MsPerMinute

\* the quotient cut off instead of rounded
RoundHalfEven_Truncates(num, den) == num \div den

\* round(num / den, 0) as Python rounds: to the nearest, a tie to the even
RoundHalfEven(num, den) ==
    LET q == num \div den
        r == num % den
    IN  IF 2 * r < den THEN q
        ELSE IF 2 * r > den THEN q + 1
        ELSE IF q % 2 = 0 THEN q ELSE q + 1

\* the rate over the observed span floored at one millisecond
error_rate_per_minute_FlooredAtMs(error_events) ==
    IF error_events = <<>> THEN 0
    ELSE LET span == time_span_ms(error_events)
             floored == IF span > 1 THEN span ELSE 1
         IN  RoundHalfEven(Len(error_events) * 100 * MsPerMinute, floored)

\* round(error_rate, 2), in hundredths of an error per minute:
\* error_rate = len / max(time_span_ms / 60000, 1.0)
error_rate_per_minute(error_events) ==
    IF error_events = <<>> THEN 0
    ELSE LET span == time_span_ms(error_events)
             floored == IF span > MsPerMinute THEN span ELSE MsPerMinute
         IN  RoundHalfEven(Len(error_events) * 100 * MsPerMinute, floored)

categorize_errors(error_events) ==
    LET counts == category_counts(error_events)
    IN  [total_errors |-> Len(error_events),
         categories |-> counts,
         dominant_category |-> dominant_category(counts, error_events),
         error_rate_per_minute |-> error_rate_per_minute(error_events)]

MinErrors == 5
\* 2.0 errors per minute, in hundredths
RateThreshold == 200

\* should_trigger_investigation deciding on the dominant category instead
\* of the counts of the critical categories
should_trigger_investigation_ByDominant(error_analysis) ==
    IF error_analysis.total_errors >= MinErrors THEN TRUE
    ELSE IF error_analysis.error_rate_per_minute > RateThreshold THEN TRUE
    ELSE error_analysis.dominant_category \in {"database", "memory"}

should_trigger_investigation(error_analysis) ==
    IF error_analysis.total_errors >= MinErrors THEN TRUE
    ELSE IF error_analysis.error_rate_per_minute > RateThreshold THEN TRUE
    ELSE \E category \in {"database", "memory"} :
            error_analysis.categories[category] > 0

\* what the handler computes for the error events of a subscription event
Triage(error_events) ==
    LET error_analysis == categorize_errors(error_events)
    IN  [error_analysis |-> error_analysis,
         trigger |-> should_trigger_investigation(error_analysis)]

-----------------------------------------------------------------------------
(* Actions *)

\* no toolkit function has been called and none of its inputs is in hand
NoToolkitCall ==
    /\ incident = None
    /\ trail = <<>>
    /\ correlation = None
    /\ averages = <<>>
    /\ metrics = None
    /\ anomalies = None

\* The handler has built the initial state for the alert it was invoked with
\* and graph.invoke is at the graph's entry point.
Init ==
    /\ node = "detect"
    /\ state \in {initial_state(a) : a \in Alerts}
    /\ calling = "none"
    /\ results = NoResults
    /\ verdict = None
    /\ response = None
    /\ renderings = <<>>
    /\ event = None
    /\ batch = <<>>
    /\ triage = None
    /\ NoToolkitCall

Detect ==
    /\ node = "detect"
    /\ state' = Merge(state, detect_node(state))
    /\ node' = "plan"
    /\ UNCHANGED <<calling, results, verdict, response, other_vars>>

Plan ==
    /\ node = "plan"
    /\ state' = Merge(state, plan_node(state))
    /\ node' = "investigate"
    /\ UNCHANGED <<calling, results, verdict, response, other_vars>>

\* investigate_node calls the three agents one after the other, each call
\* a plain synchronous call: the next agent of the sequence is called when
\* the call before it has returned
NextAgent ==
    IF results[LogsAgentName] = None THEN LogsAgentName
    ELSE IF results[MetricsAgentName] = None THEN MetricsAgentName
    ELSE IF results[DeployAgentName] = None THEN DeployAgentName
    ELSE "none"

\* control enters agent a's investigate, which then waits for its retrieval
\* and synthesis calls
Begin(a) ==
    /\ node = "investigate"
    /\ calling = "none"
    /\ NextAgent = a
    /\ calling' = a
    /\ UNCHANGED <<node, state, results, verdict, response, other_vars>>

BeginCall == \E a \in {LogsAgentName, MetricsAgentName, DeployAgentName} : Begin(a)

\* agent a's investigate is over: it returned r or raised
Called(r, a) ==
    IF r.raised
    THEN /\ results' = [results EXCEPT ![a] = Some(r)]
         /\ calling' = "none"
         /\ Raise
         /\ UNCHANGED <<verdict, other_vars>>
    ELSE /\ results' = [results EXCEPT ![a] = Some(r)]
         /\ calling' = "none"
         /\ UNCHANGED <<node, state, verdict, response, other_vars>>

InvestigateLogs ==
    /\ node = "investigate"
    /\ calling = LogsAgentName
    /\ \E retrieval \in RetrievalOutcomes, llm \in AgentLlmResponses :
          Called(LogsAgent_investigate(state, retrieval, llm), LogsAgentName)

InvestigateMetrics ==
    /\ node = "investigate"
    /\ calling = MetricsAgentName
    /\ \E llm \in AgentLlmResponses :
          Called(MetricsAgent_investigate(state, llm), MetricsAgentName)

InvestigateDeploy ==
    /\ node = "investigate"
    /\ calling = DeployAgentName
    /\ \E retrieval \in RetrievalOutcomes, llm \in AgentLlmResponses :
          Called(DeployAgent_investigate(state, retrieval, llm), DeployAgentName)

\* the rest of investigate_node, from "Track failures" to its return
InvestigateReturn ==
    /\ node = "investigate"
    /\ results[DeployAgentName] # None
    /\ LET lr == results[LogsAgentName][1]
           mr == results[MetricsAgentName][1]
           dr == results[DeployAgentName][1]
       IN  IF investigate_node_raises(lr, mr, dr)
           THEN Raise
           ELSE /\ state' = Merge(state, investigate_node(state, lr, mr, dr))
                /\ node' = "aggregate"
                /\ UNCHANGED response
    /\ UNCHANGED <<calling, results, verdict, other_vars>>

Aggregate ==
    /\ node = "aggregate"
    /\ state' = Merge(state, aggregate_node(state))
    /\ node' = "decide"
    /\ UNCHANGED <<calling, results, verdict, response, other_vars>>

Decide ==
    /\ node = "decide"
    /\ \E llm \in VerdictResponses :
          /\ verdict' = Some(llm)
          /\ state' = Merge(state, decide_node(state, llm))
    /\ node' = "report"
    /\ UNCHANGED <<calling, results, response, other_vars>>

ReportStep ==
    /\ node = "report"
    /\ IF report_node_raises(state)
       THEN Raise
       ELSE /\ \E now \in Times : state' = Merge(state, report_node(state, now))
            /\ node' = "END"
            /\ UNCHANGED response
    /\ UNCHANGED <<calling, results, verdict, other_vars>>

\* graph.invoke returned the final state: the handler's 200 response
HandlerReturn ==
    /\ node = "END"
    /\ response' = Some(handler_return(state))
    /\ node' = "returned"
    /\ UNCHANGED <<state, calling, results, verdict, other_vars>>

Next ==
    \/ Detect
    \/ Plan
    \/ BeginCall
    \/ InvestigateLogs
    \/ InvestigateMetrics
    \/ InvestigateDeploy
    \/ InvestigateReturn
    \/ Aggregate
    \/ Decide
    \/ ReportStep
    \/ HandlerReturn

Spec == Init /\ [][Next]_vars

-----------------------------------------------------------------------------
(* Rendering the report again from the final state *)

MaxRenderings == 2

\* the clock never runs backward: a rendering is not earlier than the one
\* before it, the first not earlier than the run's own report
LastReading ==
    IF renderings = <<>> THEN state.rca_report[1].generated_at
    ELSE renderings[Len(renderings)].generated_at

\* report_node applied to the final state the handler got from graph.invoke;
\* the state itself is left as it is
Rerender ==
    /\ node = "returned"
    /\ response[1].statusCode = 200
    /\ Len(renderings) < MaxRenderings
    /\ ~report_node_raises(state)
    /\ \E now \in Times :
          /\ now >= LastReading
          /\ renderings' = Append(renderings, report_node(state, now).rca_report[1])
    /\ UNCHANGED <<node, state, calling, results, verdict, response, event,
                    batch, triage, toolkit_vars>>

NextRender ==
    \/ Next
    \/ Rerender

SpecRender == Init /\ [][NextRender]_vars

-----------------------------------------------------------------------------
(* Triage of a subscription event, over bounded batches of error events *)

MaxBatch == 5

\* the error events a subscription event can carry: a database timeout, a
\* memory error and a payment API error, each at one of three ingestion
\* timestamps (milliseconds): one minute and just under two and a half
\* minutes after the first, so that two of them are 89.9 seconds apart
ErrorEvents ==
    {[error_type |-> k[1], message |-> k[2], _log_timestamp |-> t] :
        k \in {<<"DatabaseTimeoutError", "query timed out">>,
                <<"MemoryError", "out of memory">>,
                <<"PaymentAPIError", "payment declined">>},
        t \in {0, 60000, 149900}}

\* the handler has a subscription event in hand; no record of it is kept yet
InitTriage ==
    /\ node = "handler"
    /\ state = None
    /\ calling = "none"
    /\ results = NoResults
    /\ verdict = None
    /\ response = None
    /\ renderings = <<>>
    /\ event = None
    /\ batch = <<>>
    /\ triage = Some(Triage(<<>>))
    /\ NoToolkitCall

\* parse_subscription_event keeps one more record as an error event; triage
\* is the analysis and the decision for the events kept so far
Receive ==
    /\ node = "handler"
    /\ Len(batch) < MaxBatch
    /\ \E error \in ErrorEvents :
          /\ batch' = Append(batch, error)
          /\ triage' = Some(Triage(batch'))
    /\ UNCHANGED <<node, state, calling, results, verdict, response, renderings,
                    event, toolkit_vars>>

NextTriage == Receive

SpecTriage == InitTriage /\ [][NextTriage]_vars

-----------------------------------------------------------------------------
(* categorize_errors over batches of events of every category *)

MaxCategorized == 4

\* one error event for each rule of categorize_errors, one that no rule
\* matches, one that matches the database rule and the api rule, and one
\* that matches the memory rule and the external_service rule
CategorizedEvents ==
    {[error_type |-> k[1], message |-> k[2], _log_timestamp |-> 0] :
        k \in {<<"DatabaseTimeoutError", "query timed out">>,
                <<"PaymentAPIError", "payment declined">>,
                <<"ValidationError", "invalid quantity">>,
                <<"MemoryError", "out of memory">>,
                <<"ExternalServiceError", "inventory lookup failed">>,
                <<"UnknownError", "request failed">>,
                <<"APITimeoutError", "payment declined">>,
                <<"MemoryError", "inventory lookup failed">>}}

\* parse_subscription_event keeps one more record as an error event
ReceiveCategorized ==
    /\ node = "handler"
    /\ Len(batch) < MaxCategorized
    /\ \E error \in CategorizedEvents :
          /\ batch' = Append(batch, error)
          /\ triage' = Some(Triage(batch'))
    /\ UNCHANGED <<node, state, calling, results, verdict, response, renderings,
                    event, toolkit_vars>>

NextCategorize == ReceiveCategorized

SpecCategorize == InitTriage /\ [][NextCategorize]_vars

-----------------------------------------------------------------------------
(* The handler on a CloudWatch Logs subscription event *)

MaxRecords == 4

\* What a log record's message can be: the text of a JSON object with a
\* level (with its error_type and message, without them, or with a null
\* message), a text that is not JSON, or a JSON text that is not an object
\* (a number, a quoted string, null, a list).
LogMessages ==
    {[json |-> "object", level |-> "ERROR",
      error_type |-> "PaymentAPIError", message |-> "payment declined"],
     [json |-> "object", level |-> "CRITICAL",
      error_type |-> "DatabaseTimeoutError", message |-> "query timed out"],
     [json |-> "object", level |-> "INFO",
      error_type |-> "UnknownError", message |-> "request failed"],
     [json |-> "object", level |-> "ERROR",
      error_type |-> KeyMissing, message |-> KeyMissing],
     [json |-> "object", level |-> "ERROR",
      error_type |-> "PaymentAPIError", message |-> JsonNull],
     [json |-> "text", level |-> "", error_type |-> "", message |-> ""],
     [json |-> "scalar", level |-> "", error_type |-> "", message |-> ""]}

\* one iteration of parse_subscription_event's loop: the record is kept,
\* skipped, or the iteration raises an exception the loop does not catch
\* (json.loads gave a value without .get: AttributeError)
RecordOutcome(log_event) ==
    IF log_event.message.json = "text" THEN "skipped"
    ELSE IF log_event.message.json = "scalar" THEN "raises"
    ELSE IF log_event.message.level \in {"ERROR", "CRITICAL"} THEN "kept"
    ELSE "skipped"

\* the message dict of a kept record, with the metadata the loop adds
ErrorEvent(log_event) ==
    [level |-> log_event.message.level,
     error_type |-> log_event.message.error_type,
     message |-> log_event.message.message,
     _log_timestamp |-> log_event.timestamp,
     _log_id |-> log_event.id]

RECURSIVE KeptEvents(_)
KeptEvents(log_events) ==
    IF log_events = <<>> THEN <<>>
    ELSE (IF RecordOutcome(Head(log_events)) = "kept"
          THEN <<ErrorEvent(Head(log_events))>> ELSE <<>>)
         \o KeptEvents(Tail(log_events))

\* raised: base64, gzip or json.loads of the payload failed, or an iteration
\* of the loop raised
parse_subscription_event(ev) ==
    IF \/ ~ev.decodable
       \/ \E i \in 1..Len(ev.logEvents) : RecordOutcome(ev.logEvents[i]) = "raises"
    THEN [raised |-> TRUE, log_events |-> <<>>, error_events |-> <<>>]
    ELSE [raised |-> FALSE, log_events |-> ev.logEvents,
          error_events |-> KeptEvents(ev.logEvents)]

\* the handler's responses on the subscription path
parsing_failed ==
    [statusCode |-> 500, status |-> None, reason |-> None,
     error |-> Some("Event parsing failed")]

skipped ==
    [statusCode |-> 200, status |-> Some("skipped"),
     reason |-> Some("insufficient_errors"), error |-> None]

\* the subscription branch deciding on the error count alone
subscription_branch_CountOnly(ev) ==
    LET parsed_event == parse_subscription_event(ev)
        decision == Triage(parsed_event.error_events)
    IN  IF parsed_event.raised
        THEN [returns |-> Some(parsing_failed), error_events |-> <<>>,
              triage |-> None, alert |-> None]
        ELSE IF categorize_raises(parsed_event.error_events)
        THEN [returns |-> Some(parsing_failed),
              error_events |-> parsed_event.error_events,
              triage |-> None, alert |-> None]
        ELSE IF decision.error_analysis.total_errors = 0
        THEN [returns |-> Some(skipped), error_events |-> parsed_event.error_events,
              triage |-> Some(decision), alert |-> None]
        ELSE [returns |-> None, error_events |-> parsed_event.error_events,
              triage |-> Some(decision), alert |-> Some(SubscriptionAlert)]

\* the handler's branch for a subscription event: what it returns, if it
\* returns there, or the alert it goes on with
subscription_branch(ev) ==
    LET parsed_event == parse_subscription_event(ev)
        decision == Triage(parsed_event.error_events)
    IN  IF parsed_event.raised
        THEN [returns |-> Some(parsing_failed), error_events |-> <<>>,
              triage |-> None, alert |-> None]
        ELSE IF categorize_raises(parsed_event.error_events)
        THEN \* the except of the same try block
             [returns |-> Some(parsing_failed),
              error_events |-> parsed_event.error_events,
              triage |-> None, alert |-> None]
        ELSE IF ~decision.trigger
        THEN [returns |-> Some(skipped), error_events |-> parsed_event.error_events,
              triage |-> Some(decision), alert |-> None]
        ELSE [returns |-> None, error_events |-> parsed_event.error_events,
              triage |-> Some(decision), alert |-> Some(SubscriptionAlert)]

\* the handler is invoked with a subscription event whose payload can or
\* cannot be decoded
InitParse ==
    /\ node = "handler"
    /\ state = None
    /\ calling = "none"
    /\ results = NoResults
    /\ verdict = None
    /\ response = None
    /\ renderings = <<>>
    /\ event \in {Some([decodable |-> d, logEvents |-> <<>>]) : d \in BOOLEAN}
    /\ batch = <<>>
    /\ triage = None
    /\ NoToolkitCall

\* the payload holds one more log record
Deliver ==
    /\ node = "handler"
    /\ event[1].decodable
    /\ Len(event[1].logEvents) < MaxRecords
    /\ \E m \in LogMessages :
          event' = Some([event[1] EXCEPT !.logEvents =
                            Append(@, [message |-> m, timestamp |-> 0,
                                       id |-> Len(@) + 1])])
    /\ UNCHANGED <<node, state, calling, results, verdict, response, renderings,
                    batch, triage, toolkit_vars>>

\* handler, from its entry to its return on the subscription branch or to
\* the initial state it hands to graph.invoke
HandleSubscription ==
    /\ node = "handler"
    /\ LET branch == subscription_branch(event[1])
       IN  /\ batch' = branch.error_events
           /\ triage' = branch.triage
           /\ response' = branch.returns
           /\ IF branch.returns # None
              THEN node' = "returned" /\ UNCHANGED state
              ELSE node' = "detect" /\ state' = initial_state(branch.alert[1])
    /\ UNCHANGED <<calling, results, verdict, renderings, event, toolkit_vars>>

NextParse ==
    \/ Deliver
    \/ HandleSubscription

SpecParse == InitParse /\ [][NextParse]_vars

-----------------------------------------------------------------------------
(* Vocabulary of the properties *)

Slot(a) ==
    IF a = LogsAgentName THEN state.logs_findings
    ELSE IF a = MetricsAgentName THEN state.metrics_findings
    ELSE state.deploy_findings

AgentSet == {LogsAgentName, MetricsAgentName, DeployAgentName}

Invoked(a) == results[a] # None

\* the role's call failed: it raised, or it returned an error entry
RoleFailed(a) == Invoked(a) /\ (results[a][1].raised \/ results[a][1].error # None)

\* the role's call returned findings
RoleSucceeded(a) == Invoked(a) /\ results[a][1].findings # None

InSeq(x, seq) == \E i \in 1..Len(seq) : seq[i] = x

MessagesOf(a) == {i \in 1..Len(state.messages) : state.messages[i].agent = a}

\* INVESTIGATE has returned its delta
AfterInvestigate ==
    state.status \in {"aggregating", "deciding", "acting", "failed", "completed"}

HandlerReturned == node = "returned" /\ response # None

-----------------------------------------------------------------------------
(* C1: the status takes detecting, planning, investigating, aggregating,   *)
(* deciding, then acting or failed, then completed, in that order: every   *)
(* step that changes the status is the step of the one node whose turn it  *)
(* is, and moves the status to its successor; no node runs twice or out of *)
(* turn, and the status never moves backward.                              *)

PhaseEdges ==
    {<<"detect", "plan", "detecting", "planning">>,
     <<"plan", "investigate", "planning", "investigating">>,
     <<"investigate", "aggregate", "investigating", "aggregating">>,
     <<"aggregate", "decide", "aggregating", "deciding">>,
     <<"decide", "report", "deciding", "acting">>,
     <<"decide", "report", "deciding", "failed">>,
     <<"report", "END", "acting", "completed">>,
     <<"report", "END", "failed", "completed">>}

C1_PhaseOrder ==
    [][\/ <<node, node', state.status, state'.status>> \in PhaseEdges
       \/ /\ state'.status = state.status
          /\ node' \in {node, "returned"}]_vars

C1_Witness ==
    /\ node = "END"
    /\ state.status = "completed"
    /\ verdict # None
    /\ decide_try_succeeds(verdict[1])

-----------------------------------------------------------------------------
(* C2: every run reaches COMPLETED, whatever the three roles and the       *)
(* DECIDE synthesis do: when the handler has returned, the run's status is *)
(* completed.                                                              *)

C2_EveryRunCompletes ==
    HandlerReturned => state.status = "completed"

-----------------------------------------------------------------------------
(* C3: bulkhead isolation: once control has left INVESTIGATE, if a role    *)
(* failed (by an error entry or by raising) every role was invoked and the *)
(* findings of each role that returned some are in its slot of the state.  *)

C3_BulkheadIsolation ==
    (node \notin {"detect", "plan", "investigate"} /\ \E a \in AgentSet : RoleFailed(a))
        => \A b \in AgentSet :
              /\ Invoked(b)
              /\ Slot(b) = results[b][1].findings

-----------------------------------------------------------------------------
(* C4: a role whose retrieval call raised does not raise to the            *)
(* orchestrator: its investigate returns an error entry and findings None. *)

C4_RetrievalFailureReturned ==
    \A a \in AgentSet :
        (Invoked(a) /\ results[a][1].retrieval = "raises")
            => /\ ~results[a][1].raised
               /\ results[a][1].error # None
               /\ results[a][1].findings = None

-----------------------------------------------------------------------------
(* C5: when the DECIDE synthesis raised or returned something that is not  *)
(* a well-formed verdict, DECIDE did not raise: the state holds the        *)
(* fallback root cause, confidence 0.0 and action, the status DECIDE left  *)
(* is failed, and the run goes on through REPORT to a 200 response.        *)

C5_Malformed(llm) ==
    \/ llm.kind \in {"raise", "text"}
    \/ llm.doc.root_cause = KeyMissing
    \/ llm.doc.confidence_score = None
    \/ llm.doc.recommended_action = KeyMissing

C5_DecideFallback ==
    (verdict # None /\ C5_Malformed(verdict[1]))
        => /\ node \in {"report", "END", "returned"}
           /\ state.root_cause = Some("Unable to determine root cause")
           /\ state.confidence_score = Some(0)
           /\ state.recommended_action = Some("Manual escalation required")
           /\ node = "report" => state.status = "failed"
           /\ node \in {"END", "returned"} =>
                 state.status = "completed" /\ state.rca_report # None
           /\ node = "returned" => response[1].statusCode = 200

C5_Witness ==
    /\ node = "report"
    /\ verdict # None
    /\ verdict[1].kind = "text"
    /\ state.status = "failed"

-----------------------------------------------------------------------------
(* C6: REPORT never fails and always leaves a report, the phase trace and  *)
(* status completed; an absent root cause is rendered as Unknown, an       *)
(* absent recommended action as N/A, absent findings as the no-findings    *)
(* text.                                                                   *)

C6_ReportPlaceholders ==
    /\ node = "report" => ~report_node_raises(state)
    /\ node = "END" =>
          /\ state.status = "completed"
          /\ state.rca_report # None
          /\ state.chain_of_thought # None
          /\ state.root_cause = None => state.rca_report[1].root_cause = "Unknown"
          /\ state.recommended_action = None =>
                state.rca_report[1].recommended_action = "N/A"
          /\ state.logs_findings = None =>
                state.rca_report[1].logs_agent = "*No findings available*"
          /\ state.metrics_findings = None =>
                state.rca_report[1].metrics_agent = "*No findings available*"
          /\ state.deploy_findings = None =>
                state.rca_report[1].deploy_agent = "*No findings available*"

-----------------------------------------------------------------------------
(* C7: from the end of INVESTIGATE on, partial_results is true exactly     *)
(* when failed_agents is not empty, in the state and in the handler's 200  *)
(* response.                                                               *)

C7_PartialIffFailed ==
    AfterInvestigate =>
        /\ state.partial_results <=> state.failed_agents # <<>>
        /\ HandlerReturned =>
              (response[1].partial_results <=> response[1].failed_agents # <<>>)

C7_Witness ==
    /\ HandlerReturned
    /\ response[1].statusCode = 200
    /\ response[1].partial_results
    /\ response[1].failed_agents = <<"Metrics Agent">>

-----------------------------------------------------------------------------
(* C8: after INVESTIGATE, a role that succeeded has its Finding in its     *)
(* slot and exactly one message of its own in the log; a role that failed  *)
(* has an absent slot, no message, and its name in failed_agents.          *)

C8_RoleOutcomeRecorded ==
    AfterInvestigate =>
        \A a \in AgentSet :
            /\ Invoked(a)
            /\ RoleSucceeded(a) \/ RoleFailed(a)
            /\ RoleSucceeded(a) =>
                  /\ Slot(a) = results[a][1].findings
                  /\ Cardinality(MessagesOf(a)) = 1
                  /\ ~InSeq(a, state.failed_agents)
            /\ RoleFailed(a) =>
                  /\ Slot(a) = None
                  /\ MessagesOf(a) = {}
                  /\ InSeq(a, state.failed_agents)

C8_Witness ==
    /\ state.status = "aggregating"
    /\ RoleFailed("Logs Agent")
    /\ RoleSucceeded("Metrics Agent")
    /\ RoleSucceeded("Deploy Agent")

-----------------------------------------------------------------------------
(* C9: when exactly one role failed and the DECIDE synthesis succeeded,    *)
(* the final state has partial_results true, one failed agent, status      *)
(* completed, the six-phase trace, and the verdict's root cause, not the   *)
(* fallback.                                                               *)

C9_OneFailed == Cardinality({a \in AgentSet : RoleFailed(a)}) = 1

C9_PhaseNames(trace) == [i \in 1..Len(trace) |-> trace[i].phase]

C9_SingleFailureCompletes ==
    (node \in {"END", "returned"} /\ verdict # None /\ C9_OneFailed
       /\ ~C5_Malformed(verdict[1]))
        => /\ state.partial_results
           /\ Len(state.failed_agents) = 1
           /\ \A a \in AgentSet : RoleFailed(a) => state.failed_agents = <<a>>
           /\ state.status = "completed"
           /\ state.chain_of_thought # None
           /\ C9_PhaseNames(state.chain_of_thought[1]) =
                 <<"DETECT", "PLAN", "INVESTIGATE", "AGGREGATE", "DECIDE", "REPORT">>
           /\ \A i \in 1..6 : state.chain_of_thought[1][i].status = "complete"
           /\ state.root_cause = FromJson(verdict[1].doc.root_cause)
           /\ state.chain_of_thought[1][5].root_cause = <<state.root_cause>>
           /\ state.root_cause # Some("Unable to determine root cause")

C9_Witness ==
    /\ node = "END"
    /\ RoleFailed("Deploy Agent")
    /\ RoleSucceeded("Logs Agent")
    /\ RoleSucceeded("Metrics Agent")
    /\ state.root_cause = Some("Database connection pool exhaustion")

-----------------------------------------------------------------------------
(* C10: for an alert with only service, metric, current value and          *)
(* threshold, with Logs and Metrics succeeding and Deploy failing, the run *)
(* ends completed with failed_agents = ["Deploy Agent"], partial_results   *)
(* true and the no-findings text in the report's Deploy section.           *)

C10_DeployFailureEndToEnd ==
    (HandlerReturned /\ state.alert = BareAlert
       /\ RoleSucceeded("Logs Agent") /\ RoleSucceeded("Metrics Agent")
       /\ RoleFailed("Deploy Agent"))
        => /\ response[1].status = "completed"
           /\ response[1].failed_agents = <<"Deploy Agent">>
           /\ response[1].partial_results
           /\ response[1].rca_report # None
           /\ response[1].rca_report[1].deploy_agent = "*No findings available*"

-----------------------------------------------------------------------------
(* C11: total investigator failure: when all three roles have failed and   *)
(* the handler has returned, the run is completed with a report and a      *)
(* phase trace, the three findings sections of the report hold the         *)
(* no-findings text, and the final root cause is the DECIDE fallback       *)
(* "Unable to determine root cause".                                       *)

C11_TotalFailure ==
    (HandlerReturned /\ \A a \in AgentSet : RoleFailed(a))
        => /\ response[1].status = "completed"
           /\ response[1].rca_report # None
           /\ response[1].chain_of_thought # None
           /\ response[1].rca_report[1].logs_agent = "*No findings available*"
           /\ response[1].rca_report[1].metrics_agent = "*No findings available*"
           /\ response[1].rca_report[1].deploy_agent = "*No findings available*"
           /\ response[1].root_cause = Some("Unable to determine root cause")

\* the same, for the runs in which every role returned an error entry
C11_AllReturnedErrors ==
    (HandlerReturned /\ \A a \in AgentSet : Truthy(results[a][1].error))
        => response[1].root_cause = Some("Unable to determine root cause")

-----------------------------------------------------------------------------
(* C12: when triage triggers, the incident context built from the          *)
(* subscription event is the alert of the investigation, and that          *)
(* investigation goes through all phases and ends completed with a report. *)

C12_SubscriptionRunCompletes ==
    (HandlerReturned /\ state.alert.source = Some("cloudwatch_subscription"))
        => /\ state.alert = SubscriptionAlert
           /\ response[1].status = "completed"
           /\ response[1].rca_report # None

-----------------------------------------------------------------------------
(* C13: the message log is append-only: at every step the log before the   *)
(* step is a prefix of the log after it, so no message is removed,         *)
(* replaced or reordered.                                                  *)

IsPrefix(a, b) == Len(a) <= Len(b) /\ SubSeq(b, 1, Len(a)) = a

C13_AppendOnly ==
    [][IsPrefix(state.messages, state'.messages)]_vars

\* a finished run whose log holds the messages of DETECT, PLAN, the three
\* roles, AGGREGATE and DECIDE
C13_Witness ==
    /\ HandlerReturned
    /\ Len(state.messages) = 7
    /\ state.messages[1].agent = "System"
    /\ state.messages[7].agent = "Commander"

-----------------------------------------------------------------------------
(* C14: once INVESTIGATE has returned, no later step changes the three     *)
(* finding slots, failed_agents or partial_results; the AGGREGATE step     *)
(* changes only the status and the log, and appends to the log exactly one *)
(* message whose total_findings is the number of finding slots that hold a *)
(* finding.                                                                *)

FindingsPresent == Cardinality({a \in AgentSet : Slot(a) # None})

C14_FrameAfterInvestigate ==
    [][/\ AfterInvestigate =>
             /\ state'.logs_findings = state.logs_findings
             /\ state'.metrics_findings = state.metrics_findings
             /\ state'.deploy_findings = state.deploy_findings
             /\ state'.failed_agents = state.failed_agents
             /\ state'.partial_results = state.partial_results
       /\ (node = "aggregate" /\ node' # node) =>
             /\ state' = [state EXCEPT !.status = state'.status,
                                       !.messages = state'.messages]
             /\ Len(state'.messages) = Len(state.messages) + 1
             /\ IsPrefix(state.messages, state'.messages)
             /\ state'.messages[Len(state'.messages)].metadata.total_findings
                   = Some(FindingsPresent)]_vars

\* AGGREGATE has counted two findings of a run in which one role failed
C14_Witness ==
    /\ node = "decide"
    /\ state.status = "deciding"
    /\ state.failed_agents = <<"Logs Agent">>
    /\ state.messages[Len(state.messages)].metadata.total_findings = Some(2)

-----------------------------------------------------------------------------
(* C15: join barrier: in every state whose status is aggregating or later, *)
(* each of the three roles has been invoked and has resolved, and its      *)
(* outcome is recorded: a finding in its slot, or its name in              *)
(* failed_agents.                                                          *)

C15_JoinBarrier ==
    AfterInvestigate =>
        \A a \in AgentSet :
            /\ Invoked(a)
            /\ ~results[a][1].raised
            /\ Slot(a) # None \/ InSeq(a, state.failed_agents)

\* AGGREGATE is about to start with one finding and two failed roles
C15_Witness ==
    /\ node = "aggregate"
    /\ state.status = "aggregating"
    /\ state.logs_findings # None
    /\ state.failed_agents = <<"Metrics Agent", "Deploy Agent">>

-----------------------------------------------------------------------------
(* C16: while one role's investigate call is waiting for its retrieval or  *)
(* synthesis, the other two roles can still make progress: a sibling that  *)
(* has not been called yet can be called.                                  *)

C16_SiblingsNotDelayed ==
    \A a \in AgentSet : \A b \in AgentSet \ {a} :
        (node = "investigate" /\ calling = a /\ ~Invoked(b)) => ENABLED Begin(b)

-----------------------------------------------------------------------------
(* C17: in every reachable state confidence_score is absent or a number in *)
(* [0,1] (0 to 100 percent), also when DECIDE took it from the synthesis   *)
(* verdict.                                                                *)

C17_ConfidenceInRange ==
    \/ state.confidence_score = None
    \/ /\ state.confidence_score[1] >= 0
       /\ state.confidence_score[1] <= 100

-----------------------------------------------------------------------------
(* C18: DETECT validates the alert: in every state in which the run has    *)
(* advanced past DETECT the alert has a service and a metric, and the log  *)
(* holds exactly one message written by "System".                          *)

C18_DetectValidates ==
    state.status # "detecting" =>
        /\ state.alert.service # None
        /\ state.alert.metric # None
        /\ Cardinality(MessagesOf("System")) = 1

\* the part about the message alone
C18_OneSystemMessage ==
    state.status # "detecting" =>
        /\ Cardinality(MessagesOf("System")) = 1
        /\ state.messages[1].agent = "System"

-----------------------------------------------------------------------------
(* C19: rendering the report again from the unmodified final state is      *)
(* idempotent.  As stated: any two renderings of the same state, at any    *)
(* two times, are identical texts.  As the code has it: two renderings of  *)
(* the same state are identical in everything but the "Report generated    *)
(* at" footer, which carries the clock reading of the rendering, and are   *)
(* identical texts when rendered at the same clock reading.                *)

C19_ByteIdentical ==
    \A i \in 1..Len(renderings), j \in 1..Len(renderings) :
        renderings[i] = renderings[j]

WithoutFooter(report) == [report EXCEPT !.generated_at = 0]

C19_IdenticalButFooter ==
    \A i \in 1..Len(renderings), j \in 1..Len(renderings) :
        /\ WithoutFooter(renderings[i]) = WithoutFooter(renderings[j])
        /\ renderings[i].generated_at = renderings[j].generated_at
              => renderings[i] = renderings[j]

\* the final state was rendered twice, at two different clock readings
C19_Witness ==
    /\ Len(renderings) = 2
    /\ renderings[1].generated_at < renderings[2].generated_at
    /\ renderings[1].status = "completed"

-----------------------------------------------------------------------------
(* C20: should_trigger_investigation is monotonic.  As stated: from a      *)
(* batch for which it returns true, adding an error event of a category    *)
(* the batch already has, with any ingestion timestamp, never makes it     *)
(* return false.  As the code has it: that holds when the added event's    *)
(* ingestion timestamp lies within the span of the batch's timestamps; an  *)
(* event outside the span widens the span and can lower the rate below     *)
(* the threshold.  One added event at a time covers any number of them.    *)

Added == batch'[Len(batch')]

SameCategories ==
    /\ Len(batch') = Len(batch) + 1
    /\ triage[1].error_analysis.categories[CategoryOf(Added)] > 0

WithinSpan ==
    /\ \E i \in 1..Len(batch) : batch[i]._log_timestamp <= Added._log_timestamp
    /\ \E i \in 1..Len(batch) : batch[i]._log_timestamp >= Added._log_timestamp

C20_Monotonic ==
    [][(triage[1].trigger /\ SameCategories) => triage'[1].trigger]_vars

C20_MonotonicWithinSpan ==
    [][(triage[1].trigger /\ SameCategories /\ WithinSpan)
          => triage'[1].trigger]_vars

\* a batch of four events without database or memory errors that triggers on
\* its rate alone, as its first three events did, the fourth lying within
\* their span
C20_Witness ==
    /\ Len(batch) = 4
    /\ triage[1].trigger
    /\ triage[1].error_analysis.categories["database"] = 0
    /\ triage[1].error_analysis.categories["memory"] = 0
    /\ Triage(SubSeq(batch, 1, 3)).trigger
    /\ batch[1]._log_timestamp < batch[2]._log_timestamp
    /\ batch[4]._log_timestamp = batch[1]._log_timestamp
    /\ CategoryOf(batch[4]) = CategoryOf(batch[1])

-----------------------------------------------------------------------------
(* C21: should_trigger_investigation returns true exactly when the batch   *)
(* has at least 5 errors, or its error rate per minute, count divided by   *)
(* max(span in minutes, 1.0), is greater than 2.0, or its database or      *)
(* memory category is not empty.                                           *)

\* count / max(span_minutes, 1.0) > 2.0, in exact arithmetic
RateAboveTwo(error_events) ==
    /\ error_events # <<>>
    /\ LET span == time_span_ms(error_events)
           floored == IF span > MsPerMinute THEN span ELSE MsPerMinute
       IN  Len(error_events) * MsPerMinute > 2 * floored

C21_TriggerIff ==
    triage[1].trigger <=>
        \/ Len(batch) >= 5
        \/ RateAboveTwo(batch)
        \/ triage[1].error_analysis.categories["database"] > 0
        \/ triage[1].error_analysis.categories["memory"] > 0

\* the same with the rate as categorize_errors reports it, rounded to two
\* decimals
C21_TriggerIffRounded ==
    triage[1].trigger <=>
        \/ Len(batch) >= 5
        \/ triage[1].error_analysis.error_rate_per_minute > 200
        \/ triage[1].error_analysis.categories["database"] > 0
        \/ triage[1].error_analysis.categories["memory"] > 0

-----------------------------------------------------------------------------
(* C22: for every batch, categorize_errors puts each event in exactly one  *)
(* category: the counts of the categories sum to total_errors, and         *)
(* total_errors is the number of events in the batch.                      *)

CountSum(counts) ==
    counts["database"] + counts["api"] + counts["validation"]
        + counts["memory"] + counts["external_service"] + counts["unknown"]

C22_CountsSumToTotal ==
    /\ triage[1].error_analysis.total_errors = Len(batch)
    /\ CountSum(triage[1].error_analysis.categories) = Len(batch)
    /\ \A i \in 1..Len(batch) :
          Cardinality({c \in DOMAIN triage[1].error_analysis.categories :
                          CategoryOf(batch[i]) = c}) = 1

\* a batch of four with an event that matches two rules
C22_Witness ==
    /\ Len(batch) = 4
    /\ \E i \in 1..4 : batch[i].error_type = "APITimeoutError"
    /\ triage[1].error_analysis.categories["database"] = 1
    /\ triage[1].error_analysis.categories["api"] = 1
    /\ triage[1].error_analysis.categories["unknown"] = 2

-----------------------------------------------------------------------------
(* C23: dominant_category is the category with the largest count, the one  *)
(* declared first (database, api, validation, memory, external_service,    *)
(* unknown) among those with the largest count; it is "none" for an empty  *)
(* batch.                                                                  *)

C23_DominantCategory ==
    LET counts == triage[1].error_analysis.categories
        dominant == triage[1].error_analysis.dominant_category
    IN  IF batch = <<>> THEN dominant = "none"
        ELSE \E k \in 1..Len(CategoryNames) :
                /\ dominant = CategoryNames[k]
                /\ \A j \in 1..Len(CategoryNames) :
                      counts[CategoryNames[j]] <= counts[dominant]
                /\ \A j \in 1..(k - 1) :
                      counts[CategoryNames[j]] < counts[dominant]

\* api and memory tie with two events each, the memory events first in the
\* batch: the dominant category is api
C23_Witness ==
    /\ Len(batch) = 4
    /\ CategoryOf(batch[1]) = "memory"
    /\ triage[1].error_analysis.categories["api"] = 2
    /\ triage[1].error_analysis.categories["memory"] = 2
    /\ triage[1].error_analysis.dominant_category = "api"

-----------------------------------------------------------------------------
(* C24: decoding a subscription batch never fails because of one log       *)
(* record: when the handler has dealt with an event whose payload decodes, *)
(* parsing has not failed, and the error events kept are exactly the       *)
(* records whose message is an object with level ERROR or CRITICAL, in     *)
(* their order; every other record is dropped.                             *)

Handled == node # "handler"

ErrorRecords ==
    {i \in 1..Len(event[1].logEvents) :
        /\ event[1].logEvents[i].message.json = "object"
        /\ event[1].logEvents[i].message.level \in {"ERROR", "CRITICAL"}}

C24_RecordsNeverFatal ==
    (Handled /\ event[1].decodable)
        => /\ response # Some(parsing_failed)
           /\ {batch[i]._log_id : i \in 1..Len(batch)} = ErrorRecords
           /\ Len(batch) = Cardinality(ErrorRecords)
           /\ \A i \in 1..Len(batch), j \in 1..Len(batch) :
                 i < j => batch[i]._log_id < batch[j]._log_id

-----------------------------------------------------------------------------
(* C25: for a subscription event the handler starts no investigation in    *)
(* two cases: when the payload cannot be decoded it returns the error      *)
(* response, when should_trigger_investigation is false it returns the     *)
(* skipped response; in both no initial state is built and no phase runs.  *)
(* It goes on to DETECT only with a decoded batch that triggers.           *)

C25_NoInvestigation ==
    Handled =>
        LET parsed_event == parse_subscription_event(event[1])
        IN  /\ (parsed_event.raised
                  \/ categorize_raises(parsed_event.error_events)) =>
                  /\ response = Some(parsing_failed)
                  /\ node = "returned" /\ state = None
            /\ (~parsed_event.raised
                  /\ ~categorize_raises(parsed_event.error_events)
                  /\ ~should_trigger_investigation(
                         categorize_errors(parsed_event.error_events))) =>
                  /\ response = Some(skipped)
                  /\ node = "returned" /\ state = None
            /\ node = "detect" =>
                  /\ ~parsed_event.raised
                  /\ triage[1].trigger
                  /\ response = None

\* two ERROR records among four, none of them critical: skipped
C25_Witness ==
    /\ node = "returned"
    /\ response = Some(skipped)
    /\ Len(event[1].logEvents) = 4
    /\ Len(batch) = 2
    /\ state = None

\* a payload that cannot be decoded: the error response
C25_WitnessUndecodable ==
    /\ node = "returned"
    /\ ~event[1].decodable
    /\ response = Some(parsing_failed)

-----------------------------------------------------------------------------
(* C26: the reported error_rate_per_minute of a non-empty batch is         *)
(* count / max(span_minutes, 1.0), the span being the largest minus the    *)
(* smallest ingestion timestamp, or 60 seconds for a batch of one event;   *)
(* it is 0 for the empty batch.  As stated: the reported rate equals that  *)
(* quotient.  As the code has it: the reported rate is that quotient       *)
(* rounded to two decimals.  Rates are in hundredths: the quotient is      *)
(* Quotient / SpanFloor hundredths.                                        *)

Span ==
    IF Len(batch) = 1 THEN 60000
    ELSE LET ts == {batch[i]._log_timestamp : i \in 1..Len(batch)}
         IN  CHOOSE d \in {t - u : t \in ts, u \in ts} :
                \A t \in ts, u \in ts : t - u <= d

SpanFloor == IF Span > 60000 THEN Span ELSE 60000

Quotient == Len(batch) * 100 * 60000

Reported == triage[1].error_analysis.error_rate_per_minute

C26_RateIsQuotient ==
    IF batch = <<>> THEN Reported = 0
    ELSE Reported * SpanFloor = Quotient

C26_RateIsRoundedQuotient ==
    IF batch = <<>> THEN Reported = 0
    ELSE /\ 2 * (Reported * SpanFloor - Quotient) <= SpanFloor
         /\ 2 * (Quotient - Reported * SpanFloor) <= SpanFloor

\* four events over 89.9 seconds: 2.6696 errors per minute, reported as 2.67
C26_Witness ==
    /\ Len(batch) = 4
    /\ Span = 89900
    /\ Reported = 267

-----------------------------------------------------------------------------
(* Deploy toolkit: get_recent_deploys and correlate_deploy_with_incident.  *)
(* Times are whole minutes.  CloudTrail's EventTime carries a time zone    *)
(* and every event of one call carries the same one, so the isoformat      *)
(* texts get_recent_deploys sorts by are ordered as the instants are; the  *)
(* incident time carries a zone or not, as the alert's timestamp did.      *)

\* the most deployments CloudTrail holds for the function
MaxDeployments == 3

\* a deployment at most this many minutes before the incident is a likely cause
StrongWithin == 30

\* list.sort(key=timestamp, reverse=True) is stable: a deployment goes after
\* those already placed that are as recent
RECURSIVE InsertByTimestamp(_, _)
InsertByTimestamp(d, sorted) ==
    IF sorted = <<>> THEN <<d>>
    ELSE IF Head(sorted).timestamp >= d.timestamp
         THEN <<Head(sorted)>> \o InsertByTimestamp(d, Tail(sorted))
         ELSE <<d>> \o sorted

\* the deployments of the lookup's events, most recent first
RECURSIVE get_recent_deploys(_)
get_recent_deploys(events) ==
    IF events = <<>> THEN <<>>
    ELSE InsertByTimestamp(events[Len(events)],
                           get_recent_deploys(SubSeq(events, 1, Len(events) - 1)))

deployments_before_incident_OrAt(deployments, incident_time) ==
    SelectSeq(deployments, LAMBDA d : d.timestamp <= incident_time.minute)

\* the comprehension of lines 206-208, for an incident time with a zone
deployments_before_incident(deployments, incident_time) ==
    SelectSeq(deployments, LAMBDA d : d.timestamp < incident_time.minute)

NotCorrelated(message) ==
    [raised |-> FALSE, correlation_found |-> FALSE, message |-> Some(message),
     correlation_strength |-> None, deployment |-> None,
     time_difference_minutes |-> None, likely_cause |-> None]

\* comparing a datetime with a zone to one without raises TypeError
CorrelationRaised ==
    [raised |-> TRUE, correlation_found |-> FALSE, message |-> None,
     correlation_strength |-> None, deployment |-> None,
     time_difference_minutes |-> None, likely_cause |-> None]

Correlated_CauseWhenCloser(incident_time, most_recent) ==
    LET time_diff == incident_time.minute - most_recent.timestamp
    IN  [raised |-> FALSE, correlation_found |-> TRUE, message |-> None,
         correlation_strength |->
             Some(IF time_diff <= StrongWithin THEN "strong" ELSE "weak"),
         deployment |-> Some(most_recent),
         time_difference_minutes |-> Some(time_diff),
         likely_cause |-> Some(time_diff < StrongWithin)]

\* the result for the deployment the correlator settled on
Correlated(incident_time, most_recent) ==
    LET time_diff == incident_time.minute - most_recent.timestamp
    IN  [raised |-> FALSE, correlation_found |-> TRUE, message |-> None,
         correlation_strength |->
             Some(IF time_diff <= StrongWithin THEN "strong" ELSE "weak"),
         deployment |-> Some(most_recent),
         time_difference_minutes |-> Some(time_diff),
         likely_cause |-> Some(time_diff <= StrongWithin)]

correlate_deploy_with_incident(incident_time, events) ==
    LET deployments == get_recent_deploys(events)
    IN  IF deployments = <<>>
        THEN NotCorrelated("No deployments in lookback window")
        ELSE IF ~incident_time.aware
        THEN CorrelationRaised
        ELSE LET before == deployments_before_incident(deployments, incident_time)
             IN  IF before = <<>>
                 THEN NotCorrelated("No deployments before incident time")
                 ELSE Correlated(incident_time, before[1])

\* the incident time DeployAgent parses from the alert's timestamp: with a
\* zone ("...Z" or an offset) or without one
IncidentTimes == {[minute |-> 60, aware |-> a] : a \in BOOLEAN}

\* when the function's configuration was updated: 45, 30 and 20 minutes
\* before the incident, at the incident and 10 minutes after it
DeployMinutes == {15, 30, 40, 60, 70}

\* DeployAgent has the incident time; CloudTrail holds no update yet
InitCorrelate ==
    /\ node = "deploy_agent"
    /\ state = None
    /\ calling = "none"
    /\ results = NoResults
    /\ verdict = None
    /\ response = None
    /\ renderings = <<>>
    /\ event = None
    /\ batch = <<>>
    /\ triage = None
    /\ incident \in {Some(t) : t \in IncidentTimes}
    /\ trail = <<>>
    /\ correlation = None
    /\ averages = <<>>
    /\ metrics = None
    /\ anomalies = None

\* the function's configuration is updated and CloudTrail records the event
Deploy ==
    /\ correlation = None
    /\ Len(trail) < MaxDeployments
    /\ \E t \in DeployMinutes :
          trail' = Append(trail, [deployment_id |-> Len(trail) + 1,
                                  timestamp |-> t])
    /\ UNCHANGED <<node, state, calling, results, verdict, response, renderings,
                    event, batch, triage, incident, correlation, averages,
                    metrics, anomalies>>

\* DeployAgent calls correlate_deploy_with_incident
Correlate ==
    /\ correlation = None
    /\ correlation' = Some(correlate_deploy_with_incident(incident[1], trail))
    /\ UNCHANGED <<node, state, calling, results, verdict, response, renderings,
                    event, batch, triage, incident, trail, averages, metrics,
                    anomalies>>

NextCorrelate ==
    \/ Deploy
    \/ Correlate

SpecCorrelate == InitCorrelate /\ [][NextCorrelate]_vars

\* the correlator returned a result that names a deployment
CorrelationFound ==
    /\ correlation # None
    /\ ~correlation[1].raised
    /\ correlation[1].correlation_found

\* C27: in every correlation result with a correlation found, likely_cause
\* is true exactly when the strength is strong, and exactly when the
\* deployment is at most 30 minutes before the incident.
C27_StrongIffLikelyCause ==
    CorrelationFound =>
        LET r == correlation[1]
        IN  /\ r.likely_cause[1] <=> (r.correlation_strength[1] = "strong")
            /\ r.likely_cause[1] <=> (r.time_difference_minutes[1] <= 30)
            /\ r.correlation_strength[1] \in {"strong", "weak"}

\* a deployment exactly 30 minutes before the incident is found: strong
C27_Witness ==
    /\ CorrelationFound
    /\ correlation[1].time_difference_minutes[1] = 30
    /\ correlation[1].likely_cause[1]

\* a deployment 45 minutes before the incident is found: weak
C27_WitnessWeak ==
    /\ CorrelationFound
    /\ correlation[1].time_difference_minutes[1] = 45
    /\ correlation[1].correlation_strength[1] = "weak"

\* the recorded deployments strictly before the incident
Before == {i \in 1..Len(trail) : trail[i].timestamp < incident[1].minute}

\* the correlator returned a result
CorrelationReturned == correlation # None /\ ~correlation[1].raised

\* C28: a result of the correlator only references a deployment strictly
\* before the incident, and the most recent such one: a deployment at or
\* after the incident is never the one referenced, with no deployment
\* strictly before the incident no correlation is found, and the time
\* difference of a found correlation is positive.
C28_MostRecentBefore ==
    CorrelationReturned =>
        LET r == correlation[1]
        IN  /\ r.correlation_found <=> Before # {}
            /\ r.correlation_found =>
                  /\ \E i \in Before : trail[i] = r.deployment[1]
                  /\ \A i \in Before :
                        trail[i].timestamp <= r.deployment[1].timestamp
                  /\ r.time_difference_minutes[1] > 0
                  /\ r.time_difference_minutes[1] =
                        incident[1].minute - r.deployment[1].timestamp

\* CloudTrail holds an older deployment, the one 20 minutes before the
\* incident and one after the incident, the oldest last: the one 20 minutes
\* before is referenced
C28_Witness ==
    /\ CorrelationFound
    /\ Len(trail) = 3
    /\ trail[1].timestamp > incident[1].minute
    /\ trail[2].timestamp = 40
    /\ trail[3].timestamp = 15
    /\ correlation[1].deployment[1] = trail[2]

\* only a deployment at the incident time and one after it: no correlation
C28_WitnessNoneBefore ==
    /\ CorrelationReturned
    /\ Len(trail) = 2
    /\ trail[1].timestamp = incident[1].minute
    /\ ~correlation[1].correlation_found
    /\ correlation[1].message = Some("No deployments before incident time")

-----------------------------------------------------------------------------
(* Metrics toolkit: query_metrics' spike detection.  Only the Average of   *)
(* each datapoint matters to it; the series is oldest first, as line 62    *)
(* sorts it.  statistics.mean and statistics.median give fractions: a      *)
(* fraction is a record [num, den] with den > 0, not reduced, and two      *)
(* fractions are compared by cross-multiplication.                         *)

\* the most datapoints CloudWatch holds for the window
MaxSamples == 12

\* the most times the metric moves from one level to another in the window
MaxChanges == 3

\* the datapoints kept out of the baseline when there are more of them
RecentPoints == 10

\* a spike is a value above this many times the baseline
SpikeFactor == 2

Rat(num, den) == [num |-> num, den |-> den]

RECURSIVE Sum(_)
Sum(xs) == IF xs = <<>> THEN 0 ELSE Head(xs) + Sum(Tail(xs))

RECURSIVE InsertAscending(_, _)
InsertAscending(x, sorted) ==
    IF sorted = <<>> THEN <<x>>
    ELSE IF Head(sorted) <= x
         THEN <<Head(sorted)>> \o InsertAscending(x, Tail(sorted))
         ELSE <<x>> \o sorted

RECURSIVE Sorted(_)
Sorted(xs) == IF xs = <<>> THEN <<>> ELSE InsertAscending(Head(xs), Sorted(Tail(xs)))

\* statistics.mean of a non-empty list
mean(xs) == Rat(Sum(xs), Len(xs))

\* statistics.median of a non-empty list: the middle value, or the mean of
\* the two middle values
median(xs) ==
    LET s == Sorted(xs)
        n == Len(xs)
    IN  IF n % 2 = 1 THEN Rat(s[(n + 1) \div 2], 1)
        ELSE Rat(s[n \div 2] + s[n \div 2 + 1], 2)

\* lines 85-88
baseline(xs) ==
    IF Len(xs) > RecentPoints
    THEN mean(SubSeq(xs, 1, Len(xs) - RecentPoints))
    ELSE median(xs)

\* value > baseline * 2
Above(value, base) == value * base.den > base.num * SpikeFactor

\* the return of the except clause, and of an empty window
MetricsError(text) ==
    [error |-> Some(text), current_value |-> 0, baseline |-> None,
     spike_detected |-> FALSE, spike_start |-> None, spike_magnitude |-> None,
     datapoints_count |-> None]

\* query_metrics on the Averages of the window's datapoints, oldest first
query_metrics(xs) ==
    IF xs = <<>> THEN MetricsError("No data available")
    ELSE LET current_value == xs[Len(xs)]
             base == baseline(xs)
             spike_detected == Above(current_value, base)
         IN  IF spike_detected /\ base.num = 0
             THEN \* line 105 divides by the baseline in the print
                  MetricsError("float division by zero")
             ELSE [error |-> None,
                   current_value |-> current_value,
                   baseline |-> Some(base),
                   spike_detected |-> spike_detected,
                   spike_start |->
                       IF spike_detected
                       THEN Some(CHOOSE i \in 1..Len(xs) :
                                    /\ Above(xs[i], base)
                                    /\ \A j \in 1..(i - 1) : ~Above(xs[j], base))
                       ELSE None,
                   spike_magnitude |->
                       Some(IF base.num > 0
                            THEN Rat(current_value * base.den, base.num)
                            ELSE Rat(1, 1)),
                   datapoints_count |-> Some(Len(xs))]

\* the levels of the metric: nothing, the usual level, three times that
Levels == {0, 10, 30}

\* how many times the series moves from one level to another
Changes(xs) == Cardinality({i \in 2..Len(xs) : xs[i] # xs[i - 1]})

\* MetricsAgent is about to query; the window holds no datapoint yet
InitMetrics ==
    /\ node = "metrics_agent"
    /\ state = None
    /\ calling = "none"
    /\ results = NoResults
    /\ verdict = None
    /\ response = None
    /\ renderings = <<>>
    /\ event = None
    /\ batch = <<>>
    /\ triage = None
    /\ NoToolkitCall

\* CloudWatch records the next minute's datapoint
Sample ==
    /\ metrics = None
    /\ anomalies = None
    /\ Len(averages) < MaxSamples
    /\ \E v \in Levels :
          /\ Changes(Append(averages, v)) <= MaxChanges
          /\ averages' = Append(averages, v)
    /\ UNCHANGED <<node, state, calling, results, verdict, response, renderings,
                    event, batch, triage, incident, trail, correlation, metrics,
                    anomalies>>

\* MetricsAgent calls query_metrics
Query ==
    /\ metrics = None
    /\ metrics' = Some(query_metrics(averages))
    /\ UNCHANGED <<node, state, calling, results, verdict, response, renderings,
                    event, batch, triage, incident, trail, correlation, averages,
                    anomalies>>

NextMetrics ==
    \/ Sample
    \/ Query

SpecMetrics == InitMetrics /\ [][NextMetrics]_vars

\* the baseline the claim describes: the mean of all samples but the last
\* ten when there are at least eleven, the median of all otherwise
ClaimedBaseline ==
    IF Len(averages) >= 11
    THEN mean(SubSeq(averages, 1, Len(averages) - 10))
    ELSE median(averages)

\* the last sample is more than twice the claimed baseline
LastAboveTwiceBaseline ==
    averages[Len(averages)] * ClaimedBaseline.den > 2 * ClaimedBaseline.num

\* C29: for every non-empty series, query_metrics reports spike_detected
\* true exactly when the last sample is greater than twice the baseline
\* (the mean of all samples but the last ten when there are at least
\* eleven, the median of all samples otherwise).
C29_SpikeIffAboveTwiceBaseline ==
    (metrics # None /\ averages # <<>>) =>
        (metrics[1].spike_detected <=> LastAboveTwiceBaseline)

\* the same, for the series whose baseline is not zero
C29_SpikeIffAboveNonZeroBaseline ==
    (metrics # None /\ averages # <<>> /\ ClaimedBaseline.num # 0) =>
        /\ metrics[1].error = None
        /\ metrics[1].spike_detected <=> LastAboveTwiceBaseline

\* eleven 10s followed by 30: baseline 10, spike detected, magnitude 3.0
C29_Example ==
    /\ metrics # None
    /\ averages = [i \in 1..12 |-> IF i = 12 THEN 30 ELSE 10]
    /\ metrics[1].spike_detected
    /\ metrics[1].baseline[1].num = 10 * metrics[1].baseline[1].den
    /\ metrics[1].spike_magnitude[1].num = 3 * metrics[1].spike_magnitude[1].den

\* the baseline is zero
ZeroBaseline == ClaimedBaseline.num = 0

\* C30: a zero baseline never makes query_metrics fail on a division by
\* zero: it returns its spike verdict, with spike_magnitude 1.0.
C30_ZeroBaselineSafe ==
    (metrics # None /\ averages # <<>> /\ ZeroBaseline) =>
        /\ metrics[1].error = None
        /\ metrics[1].spike_detected <=> LastAboveTwiceBaseline
        /\ metrics[1].spike_magnitude # None
        /\ metrics[1].spike_magnitude[1].num = metrics[1].spike_magnitude[1].den

\* whenever query_metrics returns its statistics, spike_magnitude is
\* current / baseline for a non-zero baseline and 1.0 for a zero one
C30_MagnitudeIsQuotient ==
    (metrics # None /\ averages # <<>> /\ metrics[1].error = None) =>
        LET m == metrics[1].spike_magnitude[1]
            current == averages[Len(averages)]
        IN  IF ZeroBaseline
            THEN m.num = m.den
            ELSE m.num * ClaimedBaseline.num = current * ClaimedBaseline.den * m.den

\* a zero baseline under a last sample of zero: no spike, magnitude 1.0
C30_ZeroBaselineQuiet ==
    /\ metrics # None
    /\ Len(averages) > 10
    /\ ZeroBaseline
    /\ metrics[1].error = None
    /\ ~metrics[1].spike_detected
    /\ metrics[1].spike_magnitude[1] = Rat(1, 1)

-----------------------------------------------------------------------------
(* Metrics toolkit: detect_anomalies.  The series is the Average of each   *)
(* datapoint of the lookback, oldest first.  The threshold mean + 3 *      *)
(* stdev is not a fraction; "value > threshold" is decided exactly on      *)
(* integers.  An anomaly keeps the position and the value of its           *)
(* datapoint; its threshold and deviation are left out.                    *)

\* the datapoints anomaly detection needs
MinDatapoints == 10

\* the 3-sigma rule
SigmaRule == 3

RECURSIVE SumSquares(_)
SumSquares(xs) == IF xs = <<>> THEN 0 ELSE Head(xs) * Head(xs) + SumSquares(Tail(xs))

\* value > mean + 3 * stdev, for n >= 2 values: with d = n * value - sum,
\* d > 0 and d^2 * (n - 1) > 9 * n * (n * sum of squares - sum^2)
AboveThreshold(value, xs) ==
    LET n == Len(xs)
        d == n * value - Sum(xs)
    IN  /\ d > 0
        /\ d * d * (n - 1) >
              SigmaRule * SigmaRule * n * (n * SumSquares(xs) - Sum(xs) * Sum(xs))

RECURSIVE AnomaliesFrom(_, _)
\* the loop of lines 178-187, from datapoint i on
AnomaliesFrom(i, xs) ==
    IF i > Len(xs) THEN <<>>
    ELSE IF AboveThreshold(xs[i], xs)
         THEN <<[timestamp |-> i, value |-> xs[i]]>> \o AnomaliesFrom(i + 1, xs)
         ELSE AnomaliesFrom(i + 1, xs)

\* lines 171-191 and the except clause: statistics.stdev raises
\* StatisticsError for fewer than two values, and the except returns []
three_sigma(xs) ==
    IF Len(xs) < 2
    THEN [path |-> "error", anomalies |-> <<>>]
    ELSE [path |-> "detected", anomalies |-> AnomaliesFrom(1, xs)]

detect_anomalies_NoMinimum(xs) == three_sigma(xs)

\* detect_anomalies on the Averages of the lookback's datapoints: the list
\* it returns and the path it took to it
detect_anomalies(xs) ==
    IF Len(xs) < MinDatapoints
    THEN [path |-> "insufficient", anomalies |-> <<>>]
    ELSE three_sigma(xs)

\* MetricsAgent calls detect_anomalies
DetectAnomalies ==
    /\ anomalies = None
    /\ anomalies' = Some(detect_anomalies(averages))
    /\ UNCHANGED <<node, state, calling, results, verdict, response, renderings,
                    event, batch, triage, incident, trail, correlation, averages,
                    metrics>>

NextAnomalies ==
    \/ Sample
    \/ DetectAnomalies

SpecAnomalies == InitMetrics /\ [][NextAnomalies]_vars

\* C31: with fewer than 10 samples the anomaly detector returns the empty
\* list by its insufficient-data return, not through an error, whatever the
\* values; an anomaly is only ever emitted from a series of at least 10
\* samples.
C31_InsufficientDataIsEmpty ==
    anomalies # None =>
        /\ Len(averages) < 10 =>
              /\ anomalies[1].path = "insufficient"
              /\ anomalies[1].anomalies = <<>>
        /\ anomalies[1].anomalies # <<>> => Len(averages) >= 10

\* nine samples, the last three times the others: nothing is reported
C31_Witness ==
    /\ anomalies # None
    /\ Len(averages) = 9
    /\ averages[9] = 30
    /\ \A i \in 1..8 : averages[i] = 10
    /\ anomalies[1] = [path |-> "insufficient", anomalies |-> <<>>]

\* ten samples at nothing and then one high sample: it is the one anomaly
C31_WitnessAnomaly ==
    /\ anomalies # None
    /\ Len(averages) = 11
    /\ anomalies[1].anomalies = <<[timestamp |-> 11, value |-> 30]>>

\* the rules in their priority order, as the texts of an event satisfy them
RuleMatches(rule, error) ==
    CASE rule = "database" -> \/ "timeout" \in Keywords[error.error_type]
                              \/ "database" \in Keywords[error.message]
      [] rule = "api" -> \/ "api" \in Keywords[error.error_type]
                         \/ "payment" \in Keywords[error.message]
      [] rule = "validation" -> "validation" \in Keywords[error.error_type]
      [] rule = "memory" -> "memory" \in Keywords[error.error_type]
      [] rule = "external_service" -> \/ "external" \in Keywords[error.error_type]
                                      \/ "inventory" \in Keywords[error.message]
                                      \/ "shipping" \in Keywords[error.message]
      [] OTHER -> TRUE

RuleOrder ==
    <<"database", "api", "validation", "memory", "external_service", "unknown">>

\* the earliest rule of the priority order that the event matches
EarliestRule(error) ==
    RuleOrder[CHOOSE k \in 1..6 :
                 /\ RuleMatches(RuleOrder[k], error)
                 /\ \A j \in 1..(k - 1) : ~RuleMatches(RuleOrder[j], error)]

\* the event matches more than one of the five rules
MatchesSeveral(error) ==
    Cardinality({k \in 1..5 : RuleMatches(RuleOrder[k], error)}) > 1

\* C32: categorize_errors counts each event under the first rule it matches
\* in the order database, api, validation, memory, external_service, else
\* unknown; an event that matches several rules is counted only under the
\* earliest one.
C32_FirstMatchingRule ==
    triage # None =>
        \A k \in 1..6 :
            triage[1].error_analysis.categories[RuleOrder[k]] =
                Cardinality({i \in 1..Len(batch) : EarliestRule(batch[i]) = RuleOrder[k]})

\* an event that matches the database and the api rule and one that matches
\* the memory and the external_service rule: counted once each, under
\* database and under memory
C32_Witness ==
    /\ Len(batch) = 2
    /\ \A i \in 1..2 : MatchesSeveral(batch[i])
    /\ batch[1].error_type = "APITimeoutError"
    /\ batch[2].error_type = "MemoryError"
    /\ triage[1].error_analysis.categories =
          [database |-> 1, api |-> 0, validation |-> 0, memory |-> 1,
           external_service |-> 0, unknown |-> 0]

\* the objects the synthesis output of the model can parse to
ParsedOutputs ==
    {[confidence |-> llm.confidence[1], reasoning |-> llm.reasoning] :
        llm \in {l \in AgentLlmResponses : l.kind = "json" /\ l.confidence # None}}

\* role a's investigate returned a result
Returned(a) == results[a] # None /\ ~results[a][1].raised

\* C33: every result an agent's investigate returns names that agent, has a
\* timestamp, and has either findings (the parsed synthesis output) and no
\* error, or an error and findings None: never both, never neither.
C33_FindingsOrError ==
    /\ \A a \in {LogsAgentName, MetricsAgentName, DeployAgentName} :
          Returned(a) =>
              LET r == results[a][1]
              IN  /\ r.agent = a
                  /\ r.timestamp # None
                  /\ (r.error = None) <=> (r.findings # None)
                  /\ r.findings # None => r.findings[1] \in ParsedOutputs
    /\ \A llm \in AgentLlmResponses :
          LET r == Synthesis(LogsAgentName, "returns", llm)
          IN  r.findings # None =>
                  /\ llm.kind = "json"
                  /\ llm.confidence # None
                  /\ r.findings[1] = [confidence |-> llm.confidence[1],
                                      reasoning |-> llm.reasoning]

\* one role returned findings and another an error, the error with an empty
\* text
C33_Witness ==
    /\ Returned(LogsAgentName)
    /\ Returned(MetricsAgentName)
    /\ results[LogsAgentName][1].findings # None
    /\ results[LogsAgentName][1].error = None
    /\ results[MetricsAgentName][1].error = Some("")
    /\ results[MetricsAgentName][1].findings = None

\* C34: retry_count is inert and no role is retried: in every step
\* retry_count is 0 before and after, and a role that has been invoked, with
\* whatever outcome, keeps its result and is not called again.
C34_NoRetry ==
    [][/\ state.retry_count = 0
       /\ state'.retry_count = 0
       /\ \A a \in {LogsAgentName, MetricsAgentName, DeployAgentName} :
             results[a] # None =>
                 /\ results'[a] = results[a]
                 /\ calling' # a
                 /\ ~ENABLED Begin(a)]_vars

\* the run completed with a failed role on record and retry_count still 0
C34_Witness ==
    /\ node = "returned"
    /\ state.status = "completed"
    /\ state.failed_agents # <<>>
    /\ \E a \in {LogsAgentName, MetricsAgentName, DeployAgentName} : RoleFailed(a)
    /\ state.retry_count = 0

\* every role's investigate returned a result, and the findings of those
\* that succeeded have a reasoning text to quote
AllReturnedQuotable ==
    \A a \in {LogsAgentName, MetricsAgentName, DeployAgentName} :
        /\ Returned(a)
        /\ results[a][1].findings # None =>
              results[a][1].findings[1].reasoning # JsonNull

\* the handler returned because INVESTIGATE raised
InvestigateRaised == node = "returned" /\ state.status = "investigating"

\* C35: after INVESTIGATE a role is in failed_agents exactly when its slot
\* is absent, for every way a role can return a failure, the empty error
\* text included; INVESTIGATE does not raise while it records the failures.
C35_FailedIffSlotAbsent ==
    /\ AfterInvestigate =>
          \A a \in {LogsAgentName, MetricsAgentName, DeployAgentName} :
              InSeq(a, state.failed_agents) <=> Slot(a) = None
    /\ AllReturnedQuotable => ~InvestigateRaised

\* the same for the roles whose error text is not empty
C35_FailedIffSlotAbsentNonEmpty ==
    /\ AfterInvestigate =>
          \A a \in {LogsAgentName, MetricsAgentName, DeployAgentName} :
              InSeq(a, state.failed_agents) <=> Slot(a) = None
    /\ (/\ AllReturnedQuotable
        /\ \A a \in {LogsAgentName, MetricsAgentName, DeployAgentName} :
              results[a][1].error # Some(""))
       => ~InvestigateRaised

\* the roles that are not in failed_agents, in the order Logs, Metrics, Deploy
SuccessfulRoles ==
    SelectSeq(AgentNames, LAMBDA a : ~InSeq(a, state.failed_agents))

\* the agent of each message of the log
MessageAgents == [i \in 1..Len(state.messages) |-> state.messages[i].agent]

\* 1 when DECIDE's try block ran to its return, 0 when it fell back
DecideSucceeded == IF decide_try_succeeds(verdict[1]) THEN 1 ELSE 0

\* C36: the message log of a completed run has 3 + (3 - |failed_agents|) + d
\* messages, d being 1 when DECIDE succeeded and 0 when it fell back: the
\* System message of DETECT, the Commander message of PLAN, the successful
\* roles' messages in the order Logs, Metrics, Deploy, the Commander message
\* of AGGREGATE and, when DECIDE succeeded, its Commander message; REPORT
\* appends none.
C36_MessageLog ==
    state.status = "completed" =>
        LET k == 3 - Len(state.failed_agents)
        IN  /\ Len(state.messages) = 3 + k + DecideSucceeded
            /\ MessageAgents =
                  <<"System", "Commander">> \o SuccessfulRoles \o <<"Commander">>
                     \o (IF DecideSucceeded = 1 THEN <<"Commander">> ELSE <<>>)
            /\ Len(SuccessfulRoles) = k
            /\ state.messages[3 + k].message = "Agent findings aggregated"
            /\ \A i \in 1..Len(state.messages) :
                  state.messages[i].message = "Agent findings aggregated" => i = 3 + k

\* Metrics failed, Logs and Deploy succeeded, DECIDE succeeded: six messages
C36_Witness ==
    /\ state.status = "completed"
    /\ state.failed_agents = <<MetricsAgentName>>
    /\ DecideSucceeded = 1
    /\ MessageAgents = <<"System", "Commander", LogsAgentName, DeployAgentName,
                         "Commander", "Commander">>

\* every role failed and DECIDE fell back: three messages
C36_WitnessFewest ==
    /\ state.status = "completed"
    /\ Len(state.failed_agents) = 3
    /\ DecideSucceeded = 0
    /\ Len(state.messages) = 3

\* DECIDE ran and fell back
DecideFellBack == verdict # None /\ ~decide_try_succeeds(verdict[1])

\* C37: a run that reaches REPORT never ends with status failed: REPORT
\* starts with status acting or failed and sets completed, so a run whose
\* DECIDE fell back ends completed, with the fallback root cause and
\* confidence 0.0, and the handler answers with status completed; the
\* Status header of the report shows the status REPORT started with (failed
\* exactly when DECIDE fell back), never completed.
C37_FailedNotFinal ==
    /\ node = "report" => state.status \in {"acting", "failed"}
    /\ node \in {"END", "returned"} => state.status # "failed"
    /\ state.status = "completed" =>
          /\ state.rca_report[1].status \in {"acting", "failed"}
          /\ state.rca_report[1].status = "failed" <=> DecideFellBack
          /\ DecideFellBack =>
                /\ state.root_cause = Some("Unable to determine root cause")
                /\ state.confidence_score = Some(0)
    /\ (response # None /\ response[1].statusCode = 200) =>
          /\ response[1].status = "completed"
          /\ state.status = "completed"
    /\ (DecideFellBack /\ node \in {"END", "returned"}) =>
          state.status = "completed"

\* DECIDE fell back and the run is over: the state and the response say
\* completed, the report's header says failed
C37_Witness ==
    /\ node = "returned"
    /\ DecideFellBack
    /\ state.status = "completed"
    /\ response[1].statusCode = 200
    /\ response[1].status = "completed"
    /\ state.rca_report[1].status = "failed"
    /\ state.confidence_score = Some(0)

\* fewer than three error events, none of the database or memory category
SmallUncriticalBatch ==
    /\ triage # None
    /\ Len(batch) < 3
    /\ \A i \in 1..Len(batch) :
          ~RuleMatches("database", batch[i])
          /\ EarliestRule(batch[i]) # "memory"

\* C38: a batch of fewer than 3 error events, none of the database or
\* memory category, does not trigger an investigation, whatever the
\* timestamps of the events: the span is floored at one minute, so the rate
\* is at most the number of events.
C38_SmallBatchNeverTriggers ==
    SmallUncriticalBatch =>
        /\ ~triage[1].trigger
        /\ triage[1].error_analysis.error_rate_per_minute <= 100 * Len(batch)

\* two api errors with the same timestamp: rate 2.0, no investigation
C38_Witness ==
    /\ SmallUncriticalBatch
    /\ Len(batch) = 2
    /\ batch[1]._log_timestamp = batch[2]._log_timestamp
    /\ triage[1].error_analysis.error_rate_per_minute = 200
    /\ ~triage[1].trigger

\* two api errors two and a half minutes apart: rate 0.8, no investigation
C38_WitnessApart ==
    /\ SmallUncriticalBatch
    /\ Len(batch) = 2
    /\ batch[1]._log_timestamp = 0
    /\ batch[2]._log_timestamp = 149900
    /\ triage[1].error_analysis.error_rate_per_minute = 80
    /\ ~triage[1].trigger

\* the handler has dealt with a payload whose records parse_subscription_event
\* got through
ParsedAndHandled ==
    /\ Handled
    /\ ~parse_subscription_event(event[1]).raised

\* C39: categorize_errors returns an analysis for every list of kept events,
\* those with a missing or a null error_type or message included: it never
\* raises.
C39_CategorizeTotal ==
    ParsedAndHandled =>
        /\ batch = KeptEvents(event[1].logEvents)
        /\ triage # None
        /\ triage[1].error_analysis.total_errors = Len(batch)
        /\ response # Some(parsing_failed)

\* the same for kept events whose error_type and message are texts or missing
C39_CategorizeTotalWithoutNull ==
    (ParsedAndHandled
       /\ \A i \in 1..Len(batch) :
             batch[i].error_type # JsonNull /\ batch[i].message # JsonNull) =>
        /\ batch = KeptEvents(event[1].logEvents)
        /\ triage # None
        /\ triage[1].error_analysis.total_errors = Len(batch)
        /\ response # Some(parsing_failed)

\* an event without error_type and message is categorised as unknown
C39_WitnessMissing ==
    /\ ParsedAndHandled
    /\ Len(batch) = 1
    /\ batch[1].error_type = KeyMissing
    /\ batch[1].message = KeyMissing
    /\ triage[1].error_analysis.categories.unknown = 1

====
